---- MODULE Spec2Model ----
(***************************************************************************)
(* MedAssist: the chatbot routes of app.py and the three Gemini wrappers   *)
(* of function.py (gemini_text, gemini_generic, gemini_interactive) under  *)
(* Spec, the account routes of app.py under AccountSpec, and the database  *)
(* helpers of db_connect_sync.py under DbSpec.                             *)
(*                                                                         *)
(* Python str values on which the code runs string operations (lower,      *)
(* strip, `in`, endswith, split, re) are sequences of one-character        *)
(* strings; str values the code only stores or compares are TLA+ strings.  *)
(* A Python dict is a function from its keys to its values.  JSON values   *)
(* whose Python type the code tests or trips over carry a tag t.           *)
(* app.py imports the wrappers `from functions`; they are taken to be the  *)
(* ones function.py defines.                                               *)
(***************************************************************************)
EXTENDS Integers, Sequences, FiniteSets, TLC

\* ------------------------------------------------------------------ str
Whitespace == {" ", "\t", "\n"}

IsSpace(c) == c \in Whitespace

IsDigit(c) == c \in {"0", "1", "2", "3", "4", "5", "6", "7", "8", "9"}

UpperChars == <<"A","B","C","D","E","F","G","H","I","J","K","L","M","N","O","P","Q","R","S","T","U","V","W","X","Y","Z">>

LowerChars == <<"a","b","c","d","e","f","g","h","i","j","k","l","m","n","o","p","q","r","s","t","u","v","w","x","y","z">>

IsUpper(c) == c \in {UpperChars[i] : i \in DOMAIN UpperChars}

IsLower(c) == c \in {LowerChars[i] : i \in DOMAIN LowerChars}

LowerChar(c) ==
    IF IsUpper(c)
    THEN LowerChars[CHOOSE i \in DOMAIN UpperChars : UpperChars[i] = c]
    ELSE c

\* str.lower()
Lower(s) == [i \in 1..Len(s) |-> LowerChar(s[i])]

RECURSIVE LStrip(_, _)
LStrip(s, chars) ==
    IF Len(s) > 0 /\ s[1] \in chars THEN LStrip(Tail(s), chars) ELSE s

RECURSIVE RStrip(_, _)
RStrip(s, chars) ==
    IF Len(s) > 0 /\ s[Len(s)] \in chars
    THEN RStrip(SubSeq(s, 1, Len(s) - 1), chars)
    ELSE s

\* str.strip()
Strip(s) == RStrip(LStrip(s, Whitespace), Whitespace)

\* str.strip(".")
StripDots(s) == RStrip(LStrip(s, {"."}), {"."})

\* term in s
Contains(s, term) ==
    \E i \in 0..(Len(s) - Len(term)) : SubSeq(s, i + 1, i + Len(term)) = term

\* any(term in s for term in terms)
AnyTermIn(terms, s) == \E term \in terms : Contains(s, term)

\* s.endswith(suffix)
EndsWith(s, suffix) ==
    /\ Len(s) >= Len(suffix)
    /\ SubSeq(s, Len(s) - Len(suffix) + 1, Len(s)) = suffix

\* len(s.split())
SplitLen(s) ==
    Cardinality({i \in 1..Len(s) :
                    /\ ~IsSpace(s[i])
                    /\ (i = 1 \/ IsSpace(s[i - 1]))})

\* re.search(r'\d\s*/\s*10', s) is not None
RatingPattern(s) ==
    \E i \in 1..Len(s) : \E j \in (i + 1)..Len(s) : \E k \in (j + 1)..(Len(s) - 1) :
        /\ IsDigit(s[i])
        /\ \A x \in (i + 1)..(j - 1) : IsSpace(s[x])
        /\ s[j] = "/"
        /\ \A x \in (j + 1)..(k - 1) : IsSpace(s[x])
        /\ s[k] = "1"
        /\ s[k + 1] = "0"

\* re.findall(r'[A-Z][a-z]*', s): every capital starts a match, which runs over
\* the lower-case letters that follow it.
FindAllCapitalised(s) ==
    LET starts == {i \in 1..Len(s) : IsUpper(s[i])}
        End(i) == CHOOSE j \in i..Len(s) :
                      /\ \A x \in (i + 1)..j : IsLower(s[x])
                      /\ (j = Len(s) \/ ~IsLower(s[j + 1]))
        Nth(n) == CHOOSE i \in starts : Cardinality({x \in starts : x <= i}) = n
    IN  [n \in 1..Cardinality(starts) |-> SubSeq(s, Nth(n), End(Nth(n)))]

\* ----------------------------------------------------------------- dict
Has(d, k) == k \in DOMAIN d

\* d.get(k, default)
Get(d, k, default) == IF Has(d, k) THEN d[k] ELSE default

\* d[k] = v
Put(d, k, v) == [x \in (DOMAIN d) \cup {k} |-> IF x = k THEN v ELSE d[x]]

\* d.setdefault(k, v)
SetDefault(d, k, v) == IF Has(d, k) THEN d ELSE Put(d, k, v)

EmptyDict == [x \in {} |-> TRUE]

\* {**a, **b}
Merge(a, b) == [x \in (DOMAIN a) \cup (DOMAIN b) |-> IF x \in DOMAIN b THEN b[x] ELSE a[x]]

\* ----------------------------------------------------------- JSON values
JStr(s) == [t |-> "str", s |-> s]

JInt(n) == [t |-> "int", n |-> n]

JList(items) == [t |-> "list", items |-> items]

JDict(d) == [t |-> "dict", d |-> d]

JNull == [t |-> "null"]

\* What json.loads raises JSONDecodeError on.
JErr == [t |-> "error"]

(***************************************************************************)
(* A str of the conversation history.  The code never looks inside one     *)
(* except through json.loads and through [0] (when `parts` is a bare str), *)
(* so it is kept as: an id, what json.loads makes of it, and what kind of  *)
(* character it starts with ("none": the empty str).                       *)
(***************************************************************************)
HText(id, loads, head) == JStr([id |-> id, loads |-> loads, head |-> head])

PlainText == HText("It started yesterday", JErr, "letter")

DigitText == HText("3 days ago", JErr, "digit")

EmptyText == HText("", JErr, "none")

JsonText(id, value) == HText(id, value, "brace")

\* json.loads(x)
JsonLoads(x) ==
    IF x.t # "str" THEN [exc |-> "TypeError", val |-> JNull]
    ELSE IF x.s.loads.t = "error" THEN [exc |-> "JSONDecodeError", val |-> JNull]
    ELSE [exc |-> "none", val |-> x.s.loads]

\* str(x)
PyStr(x) ==
    IF x.t = "str" THEN x
    ELSE IF x.t = "int" THEN HText("int", JInt(x.n), "digit")
    ELSE HText("repr", JErr, "letter")

\* x[0] for x a list or a str
Index0(x) ==
    IF x.t = "list"
    THEN IF x.items = <<>> THEN [exc |-> "IndexError", val |-> JNull]
         ELSE [exc |-> "none", val |-> x.items[1]]
    ELSE IF x.t = "str"
    THEN IF x.s.head = "none" THEN [exc |-> "IndexError", val |-> JNull]
         ELSE [exc |-> "none",
               val |-> HText("char", IF x.s.head = "digit" THEN JInt(3) ELSE JErr, x.s.head)]
    ELSE IF x.t = "dict" THEN [exc |-> "KeyError", val |-> JNull]
    ELSE [exc |-> "TypeError", val |-> JNull]

\* ------------------------------------------------- gemini_interactive
STANDARD_DISCLAIMER == "Disclaimer: I am an AI Chatbot. This information is not a substitute for professional medical advice. Always consult a doctor for diagnosis and treatment."

initial_system_prompt == HText("initial_system_prompt", JErr, "letter")

\* The model turn that confirms the system prompt (json.dumps of a schema object).
confirmation_turn ==
    JsonText("Understood. I am MedAssist.",
             JDict([current_step |-> JInt(0), total_steps |-> JInt(0)]))

\* A history entry the code appends to formatted_history, or <<>> for one it skips.
FormatEntry(entry) ==
    IF entry.t = "dict" /\ Has(entry.d, "role") /\ Has(entry.d, "parts")
    THEN LET parts == entry.d["parts"]
         IN  IF parts.t = "list" /\ \A i \in DOMAIN parts.items : parts.items[i].t = "str"
             THEN <<entry>>
             ELSE IF parts.t = "str"
             THEN <<JDict([role |-> entry.d["role"], parts |-> JList(<<parts>>)])>>
             ELSE <<>>
    ELSE IF entry.t = "dict" /\ Has(entry.d, "role") /\ Has(entry.d, "message")
    THEN <<JDict([role |-> entry.d["role"], parts |-> JList(<<PyStr(entry.d["message"])>>)])>>
    ELSE <<>>

RECURSIVE FormatEntries(_)
FormatEntries(entries) ==
    IF entries = <<>> THEN <<>>
    ELSE FormatEntry(Head(entries)) \o FormatEntries(Tail(entries))

\* `if conversation_history:` (None and [] are both falsy)
Truthy(conversation_history) ==
    conversation_history.t = "list" /\ conversation_history.items # <<>>

(***************************************************************************)
(* formatted_history is a fresh list: appending to it leaves the caller's  *)
(* conversation_history as it was.  `caller` is the caller's list after    *)
(* the loop.                                                               *)
(***************************************************************************)
BuildHistoryAliased(conversation_history) ==
    LET head == <<JDict([role |-> "user", parts |-> JList(<<initial_system_prompt>>)]),
                  JDict([role |-> "model", parts |-> JList(<<confirmation_turn>>)])>>
        mine == IF Truthy(conversation_history) THEN conversation_history.items ELSE <<>>
    IN  [formatted |-> mine \o head,
         caller |-> IF conversation_history.t = "list"
                    THEN JList(conversation_history.items \o head)
                    ELSE conversation_history]

BuildHistory(conversation_history) ==
    LET head == <<JDict([role |-> "user", parts |-> JList(<<initial_system_prompt>>)]),
                  JDict([role |-> "model", parts |-> JList(<<confirmation_turn>>)])>>
    IN  [formatted |-> head \o (IF Truthy(conversation_history)
                                THEN FormatEntries(conversation_history.items)
                                ELSE <<>>),
         caller |-> conversation_history]

medical_keywords ==
    { <<"h","e","a","l","t","h">>, <<"m","e","d","i","c","a","l">>, <<"d","o","c","t","o","r">>, <<"s","y","m","p","t","o","m">>, <<"p","a","i","n">>, <<"s","i","c","k">>, <<"i","l","l">>,
      <<"c","o","n","d","i","t","i","o","n">>, <<"t","r","e","a","t">>, <<"f","e","v","e","r">>, <<"c","o","u","g","h">>, <<"a","c","h","e">>, <<"n","a","u","s","e","a">>, <<"r","a","s","h">> }

non_medical_keywords ==
    { <<"w","e","a","t","h","e","r">>, <<"t","i","m","e">>, <<"j","o","k","e">>, <<"s","p","o","r","t","s">>, <<"m","o","v","i","e">>, <<"m","u","s","i","c">>, <<"n","e","w","s">>,
      <<"h","i","s","t","o","r","y">>, <<"c","a","p","i","t","a","l">>, <<"t","r","a","n","s","l","a","t","e">> }

high_severity_keywords ==
    { <<"s","e","v","e","r","e">>, <<"w","o","r","s","t">>, <<"u","n","b","e","a","r","a","b","l","e">>, <<"i","n","t","e","n","s","e">>, <<"e","x","t","r","e","m","e">>, <<"e","m","e","r","g","e","n","c","y">>,
      <<"a","m","b","u","l","a","n","c","e">>, <<"h","o","s","p","i","t","a","l"," ","n","o","w">>, <<"u","r","g","e","n","t"," ","c","a","r","e">>, <<"p","a","s","s"," ","o","u","t">>, <<"f","a","i","n","t">>,
      <<"c","h","e","s","t"," ","p","a","i","n">>, <<"d","i","f","f","i","c","u","l","t","y"," ","b","r","e","a","t","h","i","n","g">>, <<"s","t","r","o","k","e"," ","s","y","m","p","t","o","m","s">> }

initial_symptom_keywords ==
    { <<"s","y","m","p","t","o","m">>, <<"p","a","i","n">>, <<"s","i","c","k">>, <<"i","l","l">>, <<"c","o","n","d","i","t","i","o","n">>, <<"f","e","v","e","r">>, <<"c","o","u","g","h">>,
      <<"a","c","h","e">>, <<"n","a","u","s","e","a">>, <<"r","a","s","h">>, <<"h","e","a","d","a","c","h","e">>, <<"f","e","e","l">> }

DefaultEstimate == 4

\* estimated_total_steps of an initial symptom message
SymptomEstimate(message_lower) ==
    IF AnyTermIn({ <<"h","e","a","d","a","c","h","e">>, <<"h","e","a","d">>, <<"m","i","g","r","a","i","n","e">> }, message_lower) THEN 4
    ELSE IF AnyTermIn({ <<"s","t","o","m","a","c","h">>, <<"n","a","u","s","e","a">>, <<"v","o","m","i","t">>, <<"d","i","a","r","r","h","e","a">> }, message_lower) THEN 4
    ELSE IF AnyTermIn({ <<"f","e","v","e","r">>, <<"t","e","m","p","e","r","a","t","u","r","e">> }, message_lower) THEN 3
    ELSE IF AnyTermIn({ <<"c","o","u","g","h">>, <<"b","r","e","a","t","h","i","n","g">> }, message_lower) THEN 4
    ELSE IF AnyTermIn({ <<"r","a","s","h">>, <<"s","k","i","n">> }, message_lower) THEN 5
    ELSE 4

Max(a, b) == IF a >= b THEN a ELSE b

(***************************************************************************)
(* The try block that reads the last turn of the history.  exc is "none",  *)
(* or the exception that leaves the block: IndexError, KeyError and        *)
(* JSONDecodeError are the ones its except clause swallows.                *)
(***************************************************************************)
LastTurnEstimate(conversation_history) ==
    LET entry == conversation_history.items[Len(conversation_history.items)]
        Raise(e) == [exc |-> e, estimated_total_steps |-> DefaultEstimate]
        Value(n) == [exc |-> "none", estimated_total_steps |-> n]
    IN  IF entry.t = "dict" /\ ~Has(entry.d, "parts") THEN Raise("KeyError")
        ELSE IF entry.t # "dict" THEN Raise("TypeError")
        ELSE LET first == Index0(entry.d["parts"])
             IN  IF first.exc # "none" THEN Raise(first.exc)
                 ELSE LET loaded == JsonLoads(first.val)
                          data == loaded.val
                          Positive(k) ==
                              data.t = "dict" /\ Has(data.d, k) /\ data.d[k].n > 0
                          BadType(k) ==
                              data.t = "dict" /\ Has(data.d, k) /\ data.d[k].t # "int"
                      IN  IF loaded.exc # "none" THEN Raise(loaded.exc)
                          ELSE IF data.t \notin {"dict", "list", "str"} THEN Raise("TypeError")
                          ELSE IF BadType("total_steps") THEN Raise("TypeError")
                          ELSE IF Positive("total_steps")
                               THEN Value(data.d["total_steps"].n)
                          ELSE IF BadType("current_step") THEN Raise("TypeError")
                          ELSE IF Positive("current_step")
                               THEN Value(Max(4, data.d["current_step"].n + 2))
                          ELSE Value(DefaultEstimate)

LongConversation == 10

(***************************************************************************)
(* The adaptive prompting block: the instruction prepended to the message. *)
(* instruction_prefix is kept as the instruction's title ("" for none)     *)
(* with the step numbers its f-string carries in step and total.           *)
(***************************************************************************)
SelectInstruction(message, conversation_history) ==
    LET is_initial_symptom == ~Truthy(conversation_history)
        message_lower == Lower(message)
        is_rating_response ==
            Contains(message_lower, <<"r","a","t","i","n","g">>) /\ RatingPattern(message_lower)
        conversation_step ==
            IF Truthy(conversation_history)
            THEN (Len(conversation_history.items) \div 2) + 1
            ELSE 1
        Result(title, exc, est) ==
            [instruction_prefix |-> title, exc |-> exc,
             conversation_step |-> conversation_step,
             estimated_total_steps |-> est]
    IN  IF ~AnyTermIn(medical_keywords, message_lower)
           /\ AnyTermIn(non_medical_keywords, message_lower)
        THEN Result("Non-Medical Query", "none", DefaultEstimate)
        ELSE IF AnyTermIn(high_severity_keywords, message_lower)
        THEN Result("High Severity Detected", "none", DefaultEstimate)
        ELSE IF is_initial_symptom /\ AnyTermIn(initial_symptom_keywords, message_lower)
        THEN Result("Initial Symptom Query", "none", SymptomEstimate(message_lower))
        ELSE IF Truthy(conversation_history) /\ ~is_rating_response
        THEN LET last == LastTurnEstimate(conversation_history)
                 est == last.estimated_total_steps
             IN  IF last.exc \notin {"none", "IndexError", "KeyError", "JSONDecodeError"}
                 THEN Result("", last.exc, DefaultEstimate)
                 ELSE IF conversation_step >= est
                 THEN Result("Likely Sufficient Info Gathered", "none", est)
                 ELSE Result("Continuing Conversation", "none", est)
        ELSE IF is_rating_response
        THEN Result("User provided symptom rating", "none", DefaultEstimate)
        ELSE IF Truthy(conversation_history)
                /\ Len(conversation_history.items) >= LongConversation
        THEN Result("Sufficient Info Likely Available (long conversation)", "none",
                    DefaultEstimate)
        ELSE Result("", "none", DefaultEstimate)

\* ------------------------------ gemini_interactive: repair of the reply
duration_options == <<"Less than a day", "1-3 days", "4-7 days", "1-2 weeks", "More than 2 weeks">>

symptom_options ==
    <<"Fever", "Headache", "Nausea", "Dizziness", "Fatigue", "Cough", "Runny nose",
      "Sore throat", "None of these">>

duration_terms == { <<"d","u","r","a","t","i","o","n">>, <<"h","o","w"," ","l","o","n","g">>, <<"w","h","e","n"," ","d","i","d">>, <<"s","i","n","c","e"," ","w","h","e","n">> }

symptom_terms == { <<"s","y","m","p","t","o","m">>, <<"e","x","p","e","r","i","e","n","c","e">>, <<"f","e","e","l","i","n","g">>, <<"n","o","t","i","c","e">> }

severity_terms == { <<"p","a","i","n">>, <<"s","e","v","e","r","e">>, <<"i","n","t","e","n","s","i","t","y">>, <<"s","c","a","l","e">>, <<"r","a","t","e">>, <<"l","e","v","e","l">> }

ShortQuestionWords == 15

\* The yes/no test: the question ends with "?" and has fewer than 15 words.
IsShortQuestion(q) == EndsWith(q, <<"?">>) /\ SplitLen(q) < ShortQuestionWords

\* The question asked for a scale when the reply gave none.
ScaleQuestionFor(d) ==
    LET symptom == StripDots(Get(d, "Symptoms", <<>>))
    IN  IF symptom # <<>>
        THEN <<"O","n"," ","a"," ","s","c","a","l","e"," ","o","f"," ","1"," ","t","o"," ","1","0",","," ","h","o","w"," ","w","o","u","l","d"," ","y","o","u"," ","r","a","t","e"," ","y","o","u","r"," ">> \o symptom \o <<"?">>
        ELSE <<"O","n"," ","a"," ","s","c","a","l","e"," ","o","f"," ","1"," ","t","o"," ","1","0",","," ","h","o","w"," ","w","o","u","l","d"," ","y","o","u"," ","r","a","t","e"," ","t","h","e"," ","s","e","v","e","r","i","t","y","?">>

\* response, current_step, total_steps
FillProgress(d, conversation_step, estimated_total_steps) ==
    LET d1 == SetDefault(d, "response", "")
        d2 == IF ~Has(d1, "current_step") \/ d1["current_step"] = 0
              THEN Put(d1, "current_step", conversation_step)
              ELSE d1
    IN  IF ~Has(d2, "total_steps") \/ d2["total_steps"] = 0
        THEN Put(d2, "total_steps", estimated_total_steps)
        ELSE d2

\* needs_follow_up, follow_up_question, follow_up_type
FillFollowUp(d) ==
    LET d1 == SetDefault(d, "needs_follow_up", FALSE)
        d2 == SetDefault(d1, "follow_up_question",
                         IF ~d1["needs_follow_up"] THEN <<>>
                         ELSE Get(d1, "follow_up_question", <<"C","o","u","l","d"," ","y","o","u"," ","t","e","l","l"," ","m","e"," ","m","o","r","e","?">>))
    IN  SetDefault(d2, "follow_up_type", "select")

\* The options and the input type of a follow-up the reply left incomplete.
FillFollowUpOptions(d) ==
    IF ~Get(d, "needs_follow_up", FALSE) THEN d
    ELSE
    LET follow_up_type == Get(d, "follow_up_type", "select")
        follow_up_options == Get(d, "follow_up_options", <<>>)
        question == Get(d, "follow_up_question", <<>>)
        d1 == IF follow_up_type = "select" /\ follow_up_options = <<>>
              THEN IF AnyTermIn(duration_terms, Lower(question))
                   THEN Put(d, "follow_up_options", duration_options)
                   ELSE IF IsShortQuestion(question)
                   THEN Put(d, "follow_up_options", <<"Yes", "No", "Not sure">>)
                   ELSE Put(d, "follow_up_options", <<"Yes", "No", "Sometimes", "Not sure">>)
              ELSE IF follow_up_type = "multiselect" /\ follow_up_options = <<>>
              THEN IF AnyTermIn(symptom_terms, Lower(question))
                   THEN Put(d, "follow_up_options", symptom_options)
                   ELSE Put(d, "follow_up_options",
                            <<"Option 1", "Option 2", "Option 3", "None of these">>)
              ELSE d
        follow_up_question == Lower(Get(d1, "follow_up_question", <<>>))
    IN  IF follow_up_type # "text" THEN d1
        ELSE IF AnyTermIn(duration_terms, follow_up_question)
        THEN Put(Put(d1, "follow_up_type", "select"), "follow_up_options", duration_options)
        ELSE IF IsShortQuestion(follow_up_question)
        THEN Put(Put(d1, "follow_up_type", "select"), "follow_up_options",
                 <<"Yes", "No", "Not sure">>)
        ELSE IF AnyTermIn(symptom_terms, follow_up_question)
        THEN Put(Put(d1, "follow_up_type", "multiselect"), "follow_up_options",
                 symptom_options)
        ELSE IF AnyTermIn(severity_terms, follow_up_question)
        THEN LET d2 == Put(d1, "follow_up_type", "scale")
             IN  IF Get(d2, "follow_up_question", <<>>) = <<>>
                 THEN Put(d2, "follow_up_question", ScaleQuestionFor(d2))
                 ELSE d2
        ELSE d1

\* "For scale type, always ensure we have a question"
FillScaleQuestion(d) ==
    IF Get(d, "follow_up_type", "") = "scale" /\ Get(d, "follow_up_question", <<>>) = <<>>
    THEN Put(d, "follow_up_question", ScaleQuestionFor(d))
    ELSE d

\* The setdefault calls for the other schema fields, in the code's order.
FillOtherDefaults(d) ==
    LET d1 == SetDefault(d, "rate_symptoms", FALSE)
        d2 == SetDefault(d1, "symptoms_to_rate", <<>>)
        d3 == SetDefault(d2, "is_medical_related", TRUE)
        d4 == SetDefault(d3, "is_medical_related_prompt",
                         IF Get(d3, "is_medical_related", TRUE) THEN "Yes" ELSE "No")
        d5 == SetDefault(d4, "can_provide_structured_response", FALSE)
        d6 == SetDefault(d5, "conversation_complete", FALSE)
        d7 == SetDefault(d6, "current_step", 0)
        d8 == SetDefault(d7, "total_steps", 0)
        d9 == SetDefault(d8, "Symptoms", <<".">>)
        d10 == SetDefault(d9, "Remedies", "")
        d11 == SetDefault(d10, "Precautions", "")
        d12 == SetDefault(d11, "Guidelines", "")
        d13 == SetDefault(d12, "medication", <<>>)
        d14 == SetDefault(d13, "Disclaimer", STANDARD_DISCLAIMER)
    IN  SetDefault(d14, "image_search_term", "")

RECURSIVE SplitMedications(_)
SplitMedications(meds) ==
    IF meds = <<>> THEN <<>>
    ELSE LET med == Head(meds)
             split_meds == FindAllCapitalised(med)
         IN  (IF split_meds # <<>> THEN split_meds ELSE <<med>>)
             \o SplitMedications(Tail(meds))

\* "Post-process medication list for spacing"
NormalizeMedication(d) == Put(d, "medication", SplitMedications(d["medication"]))

brief_summary == "Okay, here is a summary based on our conversation. Please review the details below."

\* "Force brief response when structured data is present"
ForceBriefResponse(d) ==
    IF Get(d, "can_provide_structured_response", FALSE)
    THEN Put(d, "response", brief_summary)
    ELSE d

\* "If conversation is complete, it shouldn't need follow-up"
CompleteRepair(d) ==
    IF ~d["conversation_complete"] THEN d
    ELSE
    LET d1 == Put(Put(d, "needs_follow_up", FALSE), "follow_up_question", <<>>)
    IN  IF ~d1["is_medical_related"] THEN d1
        ELSE
        LET d2 == Put(d1, "can_provide_structured_response", TRUE)
            d3 == IF d2["Symptoms"] = <<>> \/ d2["Symptoms"] = <<".">>
                  THEN Put(d2, "Symptoms", <<"S","y","m","p","t","o","m"," ","d","e","t","a","i","l","s"," ","w","e","r","e"," ","d","i","s","c","u","s","s","e","d",".">>)
                  ELSE d2
            d4 == IF d3["Remedies"] = ""
                  THEN Put(d3, "Remedies", "General self-care advice applies. Stay hydrated, rest.")
                  ELSE d3
            d5 == IF d4["Precautions"] = ""
                  THEN Put(d4, "Precautions", "Avoid strenuous activity. Monitor symptoms.")
                  ELSE d4
        IN  IF d5["Guidelines"] = ""
            THEN Put(d5, "Guidelines", "Consult a doctor if symptoms worsen or persist.")
            ELSE d5

\* The non-medical reset without the reset of medication.
NonMedicalRepairKeepsMedication(d) ==
    IF d["is_medical_related"] THEN d
    ELSE [d EXCEPT !["can_provide_structured_response"] = FALSE,
                   !["Symptoms"] = <<".">>,
                   !["Remedies"] = "",
                   !["Precautions"] = "",
                   !["Guidelines"] = "",
                   !["needs_follow_up"] = FALSE,
                   !["conversation_complete"] = TRUE]

\* "If not medical, ensure structured fields are cleared and flags set correctly"
NonMedicalRepair(d) ==
    IF d["is_medical_related"] THEN d
    ELSE [d EXCEPT !["can_provide_structured_response"] = FALSE,
                   !["Symptoms"] = <<".">>,
                   !["Remedies"] = "",
                   !["Precautions"] = "",
                   !["Guidelines"] = "",
                   !["medication"] = <<>>,
                   !["needs_follow_up"] = FALSE,
                   !["conversation_complete"] = TRUE]

\* A synchronisation that only corrects a "No" on a medical reply.
SyncFlagsOneWay(d) ==
    IF d["is_medical_related"] /\ d["is_medical_related_prompt"] = "No"
    THEN Put(d, "is_medical_related_prompt", "Yes")
    ELSE d

\* "Ensure boolean and string flags are consistent"
SyncFlags(d) ==
    IF d["is_medical_related"] /\ d["is_medical_related_prompt"] = "No"
    THEN Put(d, "is_medical_related_prompt", "Yes")
    ELSE IF ~d["is_medical_related"] /\ d["is_medical_related_prompt"] = "Yes"
    THEN Put(d, "is_medical_related_prompt", "No")
    ELSE d

(***************************************************************************)
(* Everything gemini_interactive does to the parsed reply before returning *)
(* it, one block of the code after the other (each s is the one-element    *)
(* set of the dict the block leaves).                                      *)
(***************************************************************************)
PostProcess(response_dict, conversation_step, estimated_total_steps) ==
    LET s1 == {FillProgress(response_dict, conversation_step, estimated_total_steps)}
        s2 == {FillFollowUp(d) : d \in s1}
        s3 == {FillFollowUpOptions(d) : d \in s2}
        s4 == {FillScaleQuestion(d) : d \in s3}
        s5 == {FillOtherDefaults(d) : d \in s4}
        s6 == {NormalizeMedication(d) : d \in s5}
        s7 == {ForceBriefResponse(d) : d \in s6}
        s8 == {CompleteRepair(d) : d \in s7}
        s9 == {NonMedicalRepair(d) : d \in s8}
    IN  CHOOSE d \in {SyncFlags(d9) : d9 \in s9} : TRUE

\* The dict the outer except clause returns.
InteractiveFallback ==
    [response |-> "I apologize, I encountered a technical difficulty. Could you please select an option below?",
     needs_follow_up |-> TRUE,
     follow_up_question |-> <<"W","h","a","t"," ","w","o","u","l","d"," ","y","o","u"," ","l","i","k","e"," ","t","o"," ","d","o","?">>,
     follow_up_type |-> "select",
     follow_up_options |-> <<"Try asking again", "Start a new conversation">>,
     rate_symptoms |-> FALSE,
     symptoms_to_rate |-> <<>>,
     is_medical_related |-> TRUE,
     is_medical_related_prompt |-> "Yes",
     can_provide_structured_response |-> FALSE,
     conversation_complete |-> FALSE,
     current_step |-> 0,
     total_steps |-> 0,
     Symptoms |-> <<".">>,
     Remedies |-> "",
     Precautions |-> "",
     Guidelines |-> "",
     medication |-> <<>>,
     Disclaimer |-> STANDARD_DISCLAIMER,
     image_search_term |-> ""]

max_retries == 3

\* What response.text holds: not JSON, a JSON array, or a JSON object.
ReplyInvalid == [k |-> "invalid", v |-> EmptyDict]

ReplyArray == [k |-> "list", v |-> EmptyDict]

ReplyObject(d) == [k |-> "dict", v |-> d]

NoReply == [k |-> "none", v |-> EmptyDict]

\* What a call leaves its caller with: a returned dict, or an exception.
Returned(d) == [exc |-> "none", val |-> d]

Raised(e) == [exc |-> e, val |-> EmptyDict]

NoResult == [exc |-> "pending", val |-> EmptyDict]

(***************************************************************************)
(* json.loads(response.text) and the repairs, inside the outer try: a      *)
(* reply that is not JSON raises JSONDecodeError, one that is JSON but no  *)
(* object raises AttributeError at the first setdefault.                   *)
(***************************************************************************)
ParseAndRepair(reply, conversation_step, estimated_total_steps) ==
    IF reply.k = "invalid" THEN Raised("JSONDecodeError")
    ELSE IF reply.k # "dict" THEN Raised("AttributeError")
    ELSE Returned(PostProcess(reply.v, conversation_step, estimated_total_steps))

\* An outer handler that lets the exceptions of the reply's parsing through.
OuterExceptOnlySendErrors(outcome) ==
    IF outcome.exc \in {"none", "JSONDecodeError", "AttributeError"}
    THEN outcome
    ELSE Returned(InteractiveFallback)

\* `except Exception as e:` around the whole body of gemini_interactive
OuterExcept(outcome) ==
    IF outcome.exc = "none" THEN outcome ELSE Returned(InteractiveFallback)

\* A retry test that is off by one.
ShouldRetryOnceMore(attempt) == attempt < max_retries

\* `if attempt < max_retries - 1:` sleep and try again, else re-raise
ShouldRetry(attempt) == attempt < max_retries - 1

\* ------------------------------------------ gemini_text, gemini_generic
\* markdown_to_plain_text on the response texts the model replies with here.
markdown_to_plain_text(markdown_text) ==
    CASE markdown_text = "**Rest** and drink fluids." -> "Rest and drink fluids."
      [] markdown_text = "# Advice\n- Rest\n- Fluids" -> "Advice Rest Fluids"
      [] markdown_text = "Please   rest" -> "Please rest"
      [] OTHER -> markdown_text

TextFallback(response) ==
    [response |-> response,
     Symptoms |-> ".", Remedies |-> "", Precautions |-> "", Guidelines |-> "",
     is_medical_related_prompt |-> "No", medication |-> <<>>,
     Disclaimer |-> STANDARD_DISCLAIMER]

GenericFallback ==
    [Symptoms |-> ".", Remedies |-> "", Precautions |-> "", Guidelines |-> "",
     is_medical_related_prompt |-> "No", medication |-> <<>>,
     Disclaimer |-> STANDARD_DISCLAIMER]

\* The setdefault calls both single-turn functions end with.
SingleTurnDefaults(d) ==
    LET d1 == SetDefault(d, "Symptoms", ".")
        d2 == SetDefault(d1, "Remedies", "")
        d3 == SetDefault(d2, "Precautions", "")
        d4 == SetDefault(d3, "Guidelines", "")
        d5 == SetDefault(d4, "is_medical_related_prompt", "No")
        d6 == SetDefault(d5, "medication", <<>>)
    IN  SetDefault(d6, "Disclaimer", STANDARD_DISCLAIMER)

(***************************************************************************)
(* gemini_text: the model and the chat session are built before the try    *)
(* block; send_message, json.loads and the defaults are inside it.         *)
(* setup_ok: GenerativeModel(...) and start_chat(...) returned;            *)
(* send_ok: send_message returned, with `reply` as response.text.          *)
(***************************************************************************)
gemini_text(setup_ok, send_ok, reply) ==
    IF ~setup_ok THEN Raised("Exception")
    ELSE IF ~send_ok
    THEN Returned(TextFallback("Sorry, I encountered an unexpected error. Please try again later."))
    ELSE IF reply.k = "invalid"
    THEN Returned(TextFallback("Sorry, I encountered an technical issue processing that. Could you please rephrase?"))
    ELSE IF reply.k # "dict"
    THEN Returned(TextFallback("Sorry, I encountered an unexpected error. Please try again later."))
    ELSE LET d == reply.v
             d1 == IF Has(d, "response")
                   THEN Put(d, "response", markdown_to_plain_text(d["response"]))
                   ELSE Put(d, "response", "")
         IN  Returned(SingleTurnDefaults(d1))

\* gemini_generic: built the same way, with no response field.
gemini_generic(setup_ok, send_ok, reply) ==
    IF ~setup_ok THEN Raised("Exception")
    ELSE IF ~send_ok THEN Returned(GenericFallback)
    ELSE IF reply.k # "dict" THEN Returned(GenericFallback)
    ELSE LET d == reply.v
             d1 == IF ~Has(d, "is_medical_related_prompt")
                   THEN Put(d, "is_medical_related_prompt", "No")
                   ELSE d
         IN  Returned(SingleTurnDefaults(d1))

\* The send_message calls of one invocation of a single-turn function.
SingleTurnLog(setup_ok, send_ok) ==
    IF ~setup_ok THEN <<>> ELSE IF send_ok THEN <<"ok">> ELSE <<"fail">>

\* ----------------------------------------------------------- app.py
\* jsonify(x), status
Json(status, body) == [status |-> status, body |-> body]

NoResponse == [status |-> 0, body |-> JNull]

\* jsonify({"data": payload})
Data(payload) == JDict([data |-> payload])

text_route_error ==
    [response |-> "Sorry, an error occurred processing your request: Exception",
     Disclaimer |-> STANDARD_DISCLAIMER]

generic_route_error ==
    [Symptoms |-> ".", Remedies |-> "", Precautions |-> "", Guidelines |-> "",
     is_medical_related_prompt |-> "No", medication |-> <<>>,
     Disclaimer |-> STANDARD_DISCLAIMER,
     error |-> "An error occurred: Exception"]

\* A route that sends the result without the `data` wrapper.
gemini_prompt_route_bare(result) ==
    IF result.exc = "none" THEN Json(200, JDict(result.val))
    ELSE Json(500, Data(text_route_error))

\* The body of gemini_prompt_route for a non-empty path parameter.
gemini_prompt_route(result) ==
    IF result.exc = "none" THEN Json(200, Data(result.val))
    ELSE Json(500, Data(text_route_error))

\* The body of gemini_generic_route for a non-empty path parameter.
gemini_generic_route(result) ==
    IF result.exc = "none" /\ Has(result.val, "is_medical_related_prompt")
    THEN Json(200, Data(result.val))
    ELSE Json(500, Data(generic_route_error))

\* search_images_route: get_image_urls returns a list of URLs, sent bare.
search_images_route(image_urls) == Json(200, JList(image_urls))

restart_words == { <<"r","e","s","t","a","r","t">>, <<"s","t","a","r","t"," ","o","v","e","r">>, <<"r","e","s","e","t">>, <<"n","e","w"," ","c","o","n","v","e","r","s","a","t","i","o","n">> }

restart_payload ==
    [response |-> "Okay, let's start a new conversation. How can I help with your health questions today?",
     needs_follow_up |-> FALSE,
     follow_up_question |-> <<>>,
     is_medical_related |-> TRUE,
     is_medical_related_prompt |-> "Yes",
     can_provide_structured_response |-> FALSE,
     conversation_complete |-> FALSE,
     Disclaimer |-> STANDARD_DISCLAIMER,
     conversation_restarted |-> TRUE]

\* The payload of the route's own except clause, for an exception named exc.
interactive_route_error(exc) ==
    [response |-> CASE exc = "AttributeError" ->
                         "I apologize, but an internal error occurred (AttributeError). Please try again or restart the conversation."
                    [] exc = "BadRequest" ->
                         "I apologize, but an internal error occurred (BadRequest). Please try again or restart the conversation."
                    [] OTHER ->
                         "I apologize, but an internal error occurred (ValueError). Please try again or restart the conversation.",
     needs_follow_up |-> FALSE,
     follow_up_question |-> <<>>,
     is_medical_related |-> TRUE,
     is_medical_related_prompt |-> "Yes",
     can_provide_structured_response |-> FALSE,
     conversation_complete |-> TRUE,
     Disclaimer |-> STANDARD_DISCLAIMER,
     error |-> exc]

FailsafeMessages == 100

\* len(conversation_history) if conversation_history else 0, plus the current message
total_messages(conversation_history) ==
    (IF Truthy(conversation_history) THEN Len(conversation_history.items) ELSE 0) + 1

\* A failsafe that waits for one message more.
FailsafeDueLate(response, conversation_history) ==
    /\ ~Get(response, "conversation_complete", FALSE)
    /\ total_messages(conversation_history) > FailsafeMessages

\* `if not response.get("conversation_complete", False) and total_messages >= 100:`
FailsafeDue(response, conversation_history) ==
    /\ ~Get(response, "conversation_complete", FALSE)
    /\ total_messages(conversation_history) >= FailsafeMessages

\* "API Layer Sanity Checks & Failsafes", on the dict gemini_interactive returned
Failsafes(response, conversation_history) ==
    LET r1 == IF FailsafeDue(response, conversation_history)
              THEN LET forced == Put(Put(Put(response, "conversation_complete", TRUE),
                                         "needs_follow_up", FALSE),
                                     "follow_up_question", <<>>)
                   IN  IF Get(forced, "is_medical_related", TRUE)
                       THEN Put(forced, "can_provide_structured_response", TRUE)
                       ELSE forced
              ELSE response
        r2 == IF Get(r1, "conversation_complete", FALSE) /\ Get(r1, "needs_follow_up", FALSE)
              THEN Put(Put(r1, "needs_follow_up", FALSE), "follow_up_question", <<>>)
              ELSE r1
    IN  SetDefault(r2, "Disclaimer", STANDARD_DISCLAIMER)

\* A validation whose restart test compares the message as it was typed.
ValidateInteractiveExactWords(body) ==
    LET Respond(r) == [outcome |-> "respond", response |-> r,
                       message |-> <<>>, conversation_history |-> JNull]
    IN  IF body.k = "malformed"
        THEN Respond(Json(500, Data(interactive_route_error("BadRequest"))))
        ELSE IF body.v = EmptyDict \/ ~Has(body.v, "message")
        THEN Respond(Json(400, JDict([error |-> "Invalid request. JSON body with 'message' field is required."])))
        ELSE IF body.v["message"].t # "str"
        THEN Respond(Json(500, Data(interactive_route_error("AttributeError"))))
        ELSE
        LET message == Strip(body.v["message"].s)
            conversation_history == Get(body.v, "conversation_history", JNull)
        IN  IF conversation_history.t \notin {"null", "list"}
            THEN Respond(Json(400, JDict([error |-> "Invalid request. 'conversation_history' must be a list or null."])))
            ELSE IF message \in restart_words
            THEN Respond(Json(200, Data(restart_payload)))
            ELSE [outcome |-> "call", response |-> NoResponse,
                  message |-> message, conversation_history |-> conversation_history]

(***************************************************************************)
(* The part of gemini_interactive_route before the call.  The body is      *)
(* "malformed" (request.json raises), or the parsed JSON object.  outcome  *)
(* is "respond" with the response, or "call" with the arguments.           *)
(***************************************************************************)
ValidateInteractive(body) ==
    LET Respond(r) == [outcome |-> "respond", response |-> r,
                       message |-> <<>>, conversation_history |-> JNull]
    IN  IF body.k = "malformed"
        THEN Respond(Json(500, Data(interactive_route_error("BadRequest"))))
        ELSE IF body.v = EmptyDict \/ ~Has(body.v, "message")
        THEN Respond(Json(400, JDict([error |-> "Invalid request. JSON body with 'message' field is required."])))
        ELSE IF body.v["message"].t # "str"
        THEN Respond(Json(500, Data(interactive_route_error("AttributeError"))))
        ELSE
        LET message == Strip(body.v["message"].s)
            conversation_history == Get(body.v, "conversation_history", JNull)
        IN  IF conversation_history.t \notin {"null", "list"}
            THEN Respond(Json(400, JDict([error |-> "Invalid request. 'conversation_history' must be a list or null."])))
            ELSE IF Lower(message) \in restart_words
            THEN Respond(Json(200, Data(restart_payload)))
            ELSE [outcome |-> "call", response |-> NoResponse,
                  message |-> message, conversation_history |-> conversation_history]

\* The part of gemini_interactive_route after the call.
FinishInteractive(result, conversation_history) ==
    IF result.exc # "none"
    THEN Json(500, Data(interactive_route_error(result.exc)))
    ELSE Json(200, Data(Failsafes(result.val, conversation_history)))

\* ------------------------------------------------------------- inputs
MaxHistLen == 2

UserTurn == JDict([role |-> "user", parts |-> JList(<<PlainText>>)])

\* A model turn as the client stores it: the JSON text of an earlier reply.
ModelTurn ==
    JDict([role |-> "model",
           parts |-> JList(<<JsonText("reply", JDict([current_step |-> JInt(2),
                                                     total_steps |-> JInt(4)]))>>)])

\* Last turns the estimate of the step count has to cope with.
LastEntries ==
    { ModelTurn,
      UserTurn,
      JDict([role |-> "model",
             parts |-> JList(<<JsonText("steps unknown", JDict([current_step |-> JInt(3),
                                                               total_steps |-> JInt(0)]))>>)]),
      JDict([role |-> "model",
             parts |-> JList(<<JsonText("steps as text", JDict([total_steps |-> JStr("4")]))>>)]),
      JDict([role |-> "model", parts |-> JList(<<JsonText("array", JList(<<>>))>>)]),
      JDict([role |-> "model", parts |-> JList(<<JsonText("number", JInt(7))>>)]),
      JDict([role |-> "model", parts |-> JList(<<>>)]),
      JDict([role |-> "user", parts |-> DigitText]),
      JDict([role |-> "user", message |-> PlainText]),
      PlainText }

History(n, last) ==
    JList([i \in 1..n |-> IF i = n THEN last
                          ELSE IF i % 2 = 1 THEN UserTurn ELSE ModelTurn])

Histories ==
    {JNull, JList(<<>>)}
    \cup {History(n, last) : n \in 1..MaxHistLen, last \in LastEntries}
    \cup {History(n, ModelTurn) :
            n \in {LongConversation, FailsafeMessages - 2, FailsafeMessages - 1}}

Messages ==
    { <<"I"," ","h","a","v","e"," ","a"," ","b","a","d"," ","h","e","a","d","a","c","h","e">>,
      <<"W","h","a","t","'","s"," ","t","h","e"," ","w","e","a","t","h","e","r","?">>,
      <<"s","e","v","e","r","e"," ","c","h","e","s","t"," ","p","a","i","n">>,
      <<"M","y"," ","r","a","t","i","n","g"," ","i","s"," ","7","/","1","0">>,
      <<"y","e","s">>,
      <<"I"," ","f","a","i","n","t"," ","s","o","m","e","t","i","m","e","s">>,
      <<" ","R","e","s","t","a","r","t"," ">> }

\* Request bodies of POST /gemini-interactive.
InteractiveBodies ==
    { [k |-> "malformed", v |-> EmptyDict],
      [k |-> "json", v |-> EmptyDict],
      [k |-> "json", v |-> [conversation_history |-> History(FailsafeMessages - 1, ModelTurn)]],
      [k |-> "json", v |-> [message |-> JInt(5)]],
      [k |-> "json", v |-> [message |-> JStr(<<"y","e","s">>), conversation_history |-> PlainText]],
      [k |-> "json", v |-> [message |-> JStr(<<" ","R","e","s","t","a","r","t"," ">>), conversation_history |-> PlainText]] }
    \cup {[k |-> "json", v |-> [message |-> JStr(m)]] : m \in Messages}
    \cup {[k |-> "json", v |-> [message |-> JStr(m), conversation_history |-> h]] :
            m \in Messages, h \in {JList(<<>>), History(FailsafeMessages - 1, ModelTurn)}}
    \cup {[k |-> "json", v |-> [message |-> JStr(m), conversation_history |-> h]] :
            m \in { <<"y","e","s">>, <<"M","y"," ","r","a","t","i","n","g"," ","i","s"," ","7","/","1","0">> }, h \in Histories}

\* The flags of a reply: any of them omitted, true or false.
FlagKeys ==
    {"needs_follow_up", "is_medical_related", "conversation_complete",
     "can_provide_structured_response"}

FlagDicts == UNION {[keys -> BOOLEAN] : keys \in SUBSET FlagKeys}

\* The other fields of a reply: all omitted, all given, or a follow-up left incomplete.
ReplyDetails ==
    { EmptyDict,
      [response |-> "You should rest.",
       follow_up_question |-> <<"H","o","w"," ","l","o","n","g"," ","h","a","v","e"," ","y","o","u"," ","h","a","d"," ","t","h","i","s","?">>,
       follow_up_type |-> "text",
       follow_up_options |-> <<>>,
       rate_symptoms |-> FALSE,
       symptoms_to_rate |-> <<>>,
       is_medical_related_prompt |-> "No",
       current_step |-> 2,
       total_steps |-> 5,
       Symptoms |-> <<"H","e","a","d","a","c","h","e",".">>,
       Remedies |-> "Rest",
       Precautions |-> "Avoid screens",
       Guidelines |-> "See a doctor",
       medication |-> << <<"I","b","u","p","r","o","f","e","n","A","c","e","t","a","m","i","n","o","p","h","e","n">> >>,
       Disclaimer |-> "Not medical advice.",
       image_search_term |-> "headache relief"],
      [response |-> "Let me ask.",
       follow_up_type |-> "scale",
       is_medical_related_prompt |-> "Yes",
       current_step |-> 0,
       Symptoms |-> <<".">>,
       Remedies |-> "",
       medication |-> << <<"i","b","u","p","r","o","f","e","n">>, <<"V","i","t","a","m","i","n"," ","B","1","2">> >>],
      [response |-> "Tell me more.",
       follow_up_question |-> <<"T","e","l","l"," ","m","e"," ","m","o","r","e"," ","a","b","o","u","t"," ","i","t">>,
       follow_up_type |-> "text",
       Symptoms |-> <<>>],
      [follow_up_question |-> <<"W","h","i","c","h"," ","s","y","m","p","t","o","m","s"," ","d","o"," ","y","o","u"," ","n","o","t","i","c","e","?">>,
       follow_up_type |-> "multiselect",
       follow_up_options |-> <<"Fever", "Cough">>,
       Guidelines |-> ""] }

ObjectReplies ==
    {Merge(EmptyDict, flags) : flags \in FlagDicts}
    \cup {Merge(details, flags) :
            details \in ReplyDetails \ {EmptyDict},
            flags \in {f \in FlagDicts :
                         /\ Get(f, "needs_follow_up", FALSE)
                         /\ ~Get(f, "is_medical_related", FALSE)
                         /\ Get(f, "conversation_complete", TRUE)
                         /\ Get(f, "can_provide_structured_response", TRUE)}}

InteractiveReplies == {ReplyInvalid, ReplyArray} \cup {ReplyObject(d) : d \in ObjectReplies}

TextFields ==
    {"response", "Symptoms", "Remedies", "Precautions", "Guidelines",
     "is_medical_related_prompt", "medication", "Disclaimer"}

\* A reply that follows the single-turn schema.
FullTextReply ==
    [response |-> "**Rest** and drink fluids.",
     Symptoms |-> "Headache", Remedies |-> "Rest", Precautions |-> "Avoid screens",
     Guidelines |-> "See a doctor", is_medical_related_prompt |-> "Yes",
     medication |-> <<"Ibuprofen">>, Disclaimer |-> "Not medical advice."]

Restrict(d, keys) == [x \in keys |-> d[x]]

\* Replies to the single-turn functions: any subset of the schema's fields.
TextReplies ==
    {ReplyInvalid, ReplyArray}
    \cup {ReplyObject(Restrict(FullTextReply, keys)) : keys \in SUBSET TextFields}

GenericReplies ==
    {ReplyInvalid, ReplyArray}
    \cup {ReplyObject(Restrict(FullTextReply, keys)) : keys \in SUBSET (TextFields \ {"response"})}

\* (setup_ok, send_ok, reply) of one single-turn invocation
SingleTurnOutcomes(replies) ==
    {<<FALSE, FALSE, NoReply>>, <<TRUE, FALSE, NoReply>>}
    \cup {<<TRUE, TRUE, r>> : r \in replies}

num_results == 3

ImageUrlLists ==
    {SubSeq(<<"https://img/1", "https://img/2", "https://img/3">>, 1, n) : n \in 0..num_results}

\* ---------------------------------------------------------- accounts
\* Browsers, each with its own session cookie.
Clients == {"c1", "c2"}

Roles == {"user", "doctor"}

Emails == {"asha@example.com", "ravi@example.com"}

Passwords == {"secret", "guess"}

MaxRecords == 2

\* request.form of a registration POST: `complete` says that every field the
\* route reads is present.
RegistrationForms ==
    {[email |-> e, password |-> "secret", full_name |-> "Asha", complete |-> b] :
        e \in Emails, b \in BOOLEAN}

NoForm ==
    [role |-> "", email |-> "", password |-> "", full_name |-> "", complete |-> FALSE]

\* What a route of the accounts answers with.
NoPage == [status |-> 0, view |-> "", message |-> "", location |-> "", record |-> 0]

\* render_template(view, message=message)
Render(view, message) ==
    [status |-> 200, view |-> view, message |-> message, location |-> "", record |-> 0]

\* render_template(view, user=row) or doctor=row
RenderRecord(view, row) ==
    [status |-> 200, view |-> view, message |-> "", location |-> "", record |-> row.id]

\* redirect(url_for(location))
Redirect(location) ==
    [status |-> 302, view |-> "", message |-> "", location |-> location, record |-> 0]

\* The response to an exception no route handles.
Abort(status) ==
    [status |-> status, view |-> "", message |-> "", location |-> "", record |-> 0]

\* ---------------------------------------------------------- database
\* The connections the pool hands out.
PoolSize == 2

Connections == 1..PoolSize

Statements == {"q1", "q2"}

\* What a caller can read of the effects that commits have made permanent.
MaxPersisted == 2

MaxRetries == 2

MaxBatch == 2

\* queries_with_params of batch_execute
Batches ==
    {<<>>} \cup {<<q>> : q \in Statements}
    \cup {qs \in [1..MaxBatch -> Statements] : qs[1] # qs[2]}

\* The calls of the helpers: execute_query with its `retries`, the two fetch
\* functions, batch_execute with its list.
DbCalls ==
    {[fn |-> "execute_query", queries |-> <<q>>, retries |-> n] :
        q \in Statements, n \in 0..MaxRetries}
    \cup {[fn |-> f, queries |-> <<q>>, retries |-> 0] :
            f \in {"fetch_results", "fetch_dataframe"}, q \in Statements}
    \cup {[fn |-> "batch_execute", queries |-> qs, retries |-> 0] : qs \in Batches}

NoCall == [fn |-> "", queries |-> <<>>, retries |-> 0, base |-> <<>>]

NoFlow == [kind |-> "none", what |-> ""]

\* ---------------------------------------------------------- the machine
VARIABLES
    pc,                    \* where the request in progress is
    request,               \* the HTTP request in progress
    message,               \* gemini_interactive's message argument
    conversation_history,  \* the caller's history object
    formatted_history,     \* gemini_interactive's local list
    selection,             \* instruction_prefix and the step estimates
    attempt,               \* the retry loop's counter
    log,                   \* send_message calls and sleeps of this invocation
    reply,                 \* response.text of the call that succeeded
    raised,                \* the exception raised inside gemini_interactive
    result,                \* what the wrapper function returned or raised
    response               \* the HTTP response

\* The accounts of app.py: the User and Doctor tables and, for every client,
\* its Flask session and the registration or page request it has in progress.
VARIABLES
    users,                 \* the rows of the User table, in insertion order
    doctors,               \* the rows of the Doctor table, in insertion order
    session,               \* client -> the session its cookie carries
    apc,                   \* client -> where its registration request is
    pending,               \* client -> the role and form of that request
    page                   \* client -> the last response it received

chat ==
    <<pc, request, message, conversation_history, formatted_history, selection,
      attempt, log, reply, raised, result, response>>

accounts == <<users, doctors, session, apc, pending, page>>

\* The helpers of db_connect_sync.py: one call of one of them at a time, on a
\* pool that other threads use as well.
VARIABLES
    dpc,                   \* where the call in progress is
    db_call,               \* the function called and its arguments
    conn,                  \* the function's local `conn` (0 for None)
    retry_count,           \* execute_query's counter
    item,                  \* the position in the list of statements
    flow,                  \* the exception in flight, or how the try block is left
    connection_pool,       \* connection -> "free", or who has it checked out
    txn,                   \* connection -> the statements of its open transaction
    persisted,             \* the statements whose effects are committed
    dblog                  \* the calls made on the pool and on connections

database ==
    <<dpc, db_call, conn, retry_count, item, flow, connection_pool, txn, persisted, dblog>>

vars == <<chat, accounts, database>>

NoRequest == [route |-> "", body |-> [k |-> "none", v |-> EmptyDict]]

NoSelection ==
    [instruction_prefix |-> "", exc |-> "none", conversation_step |-> 0,
     estimated_total_steps |-> 0]

Init ==
    /\ pc = "idle"
    /\ request = NoRequest
    /\ message = <<>>
    /\ conversation_history = JNull
    /\ formatted_history = <<>>
    /\ selection = NoSelection
    /\ attempt = 0
    /\ log = <<>>
    /\ reply = NoReply
    /\ raised = "none"
    /\ result = NoResult
    /\ response = NoResponse
    /\ users = <<>>
    /\ doctors = <<>>
    /\ session = [c \in Clients |-> EmptyDict]
    /\ apc = [c \in Clients |-> "idle"]
    /\ pending = [c \in Clients |-> NoForm]
    /\ page = [c \in Clients |-> NoPage]
    /\ dpc = "idle"
    /\ db_call = NoCall
    /\ conn = 0
    /\ retry_count = 0
    /\ item = 1
    /\ flow = NoFlow
    /\ connection_pool = [c \in Connections |-> "free"]
    /\ txn = [c \in Connections |-> <<>>]
    /\ persisted = <<>>
    /\ dblog = <<>>

\* POST /gemini-interactive up to the call of gemini_interactive
InteractiveRoute(body) ==
    /\ pc = "idle"
    /\ request' = [route |-> "/gemini-interactive", body |-> body]
    /\ LET v == ValidateInteractive(body)
       IN  /\ message' = v.message
           /\ conversation_history' = v.conversation_history
           /\ response' = v.response
           /\ pc' = IF v.outcome = "call" THEN "interactive_setup" ELSE "done"
    /\ UNCHANGED <<formatted_history, selection, attempt, log, reply, raised, result>>
    /\ UNCHANGED <<accounts, database>>

\* gemini_interactive from its first line to the retry loop
InteractiveSetup(setup_ok) ==
    /\ pc = "interactive_setup"
    /\ IF ~setup_ok
       THEN /\ raised' = "Exception"
            /\ result' = OuterExcept(Raised("Exception"))
            /\ pc' = "interactive_return"
            /\ UNCHANGED <<conversation_history, formatted_history, selection>>
       ELSE LET built == BuildHistory(conversation_history)
                chosen == SelectInstruction(message, built.caller)
            IN  /\ conversation_history' = built.caller
                /\ selection' = chosen
                /\ raised' = chosen.exc
                /\ IF chosen.exc = "none"
                   THEN /\ formatted_history' = built.formatted
                        /\ pc' = "interactive_call"
                        /\ UNCHANGED result
                   ELSE /\ formatted_history' = <<>>
                        /\ result' = OuterExcept(Raised(chosen.exc))
                        /\ pc' = "interactive_return"
    /\ attempt' = 0
    /\ UNCHANGED <<request, message, log, reply, response>>
    /\ UNCHANGED <<accounts, database>>

\* send_message returns: the reply is parsed and repaired, and the function returns
SendSucceeds(r) ==
    /\ pc = "interactive_call"
    /\ log' = Append(log, "ok")
    /\ reply' = r
    /\ LET outcome == ParseAndRepair(r, selection.conversation_step,
                                     selection.estimated_total_steps)
       IN  /\ raised' = outcome.exc
           /\ result' = OuterExcept(outcome)
    /\ formatted_history' = <<>>
    /\ pc' = "interactive_return"
    /\ UNCHANGED <<request, message, conversation_history, selection, attempt, response>>
    /\ UNCHANGED <<accounts, database>>

\* send_message raises
SendFails ==
    /\ pc = "interactive_call"
    /\ log' = Append(log, "fail")
    /\ IF ShouldRetry(attempt)
       THEN /\ pc' = "interactive_sleep"
            /\ UNCHANGED <<raised, result, formatted_history>>
       ELSE /\ raised' = "Exception"
            /\ result' = OuterExcept(Raised("Exception"))
            /\ formatted_history' = <<>>
            /\ pc' = "interactive_return"
    /\ UNCHANGED <<request, message, conversation_history, selection, attempt, reply, response>>
    /\ UNCHANGED <<accounts, database>>

\* time.sleep(1), then the next round of the loop (or its end, with no response)
Sleep ==
    /\ pc = "interactive_sleep"
    /\ log' = Append(log, "sleep")
    /\ attempt' = attempt + 1
    /\ IF attempt + 1 < max_retries
       THEN /\ pc' = "interactive_call"
            /\ UNCHANGED <<raised, result, formatted_history>>
       ELSE /\ raised' = "Exception"
            /\ result' = OuterExcept(Raised("Exception"))
            /\ formatted_history' = <<>>
            /\ pc' = "interactive_return"
    /\ UNCHANGED <<request, message, conversation_history, selection, reply, response>>
    /\ UNCHANGED <<accounts, database>>

\* POST /gemini-interactive after the call (the loop's counter and log end with it)
InteractiveReturn ==
    /\ pc = "interactive_return"
    /\ response' = FinishInteractive(result, conversation_history)
    /\ pc' = "done"
    /\ attempt' = 0
    /\ log' = <<>>
    /\ UNCHANGED <<request, message, conversation_history, formatted_history, selection,
                   reply, raised, result>>
    /\ UNCHANGED <<accounts, database>>

\* GET /gemini/<data>
TextRoute(data, outcome) ==
    /\ pc = "idle"
    /\ request' = [route |-> "/gemini", body |-> [k |-> "path", v |-> [data |-> data]]]
    /\ log' = SingleTurnLog(outcome[1], outcome[2])
    /\ reply' = outcome[3]
    /\ result' = gemini_text(outcome[1], outcome[2], outcome[3])
    /\ response' = gemini_prompt_route(result')
    /\ pc' = "done"
    /\ UNCHANGED <<message, conversation_history, formatted_history, selection, attempt, raised>>
    /\ UNCHANGED <<accounts, database>>

\* GET /gemini_generic/<data>
GenericRoute(data, outcome) ==
    /\ pc = "idle"
    /\ request' = [route |-> "/gemini_generic", body |-> [k |-> "path", v |-> [data |-> data]]]
    /\ log' = SingleTurnLog(outcome[1], outcome[2])
    /\ reply' = outcome[3]
    /\ result' = gemini_generic(outcome[1], outcome[2], outcome[3])
    /\ response' = gemini_generic_route(result')
    /\ pc' = "done"
    /\ UNCHANGED <<message, conversation_history, formatted_history, selection, attempt, raised>>
    /\ UNCHANGED <<accounts, database>>

\* GET /gemini/image/<search_term>
ImageRoute(search_term, image_urls) ==
    /\ pc = "idle"
    /\ request' = [route |-> "/gemini/image", body |-> [k |-> "path", v |-> [data |-> search_term]]]
    /\ response' = search_images_route(image_urls)
    /\ pc' = "done"
    /\ UNCHANGED <<message, conversation_history, formatted_history, selection, attempt,
                   log, reply, raised, result>>
    /\ UNCHANGED <<accounts, database>>

\* The response is sent; the next request starts from nothing.
Reset ==
    /\ pc = "done"
    /\ pc' = "idle"
    /\ request' = NoRequest
    /\ message' = <<>>
    /\ conversation_history' = JNull
    /\ formatted_history' = <<>>
    /\ selection' = NoSelection
    /\ attempt' = 0
    /\ log' = <<>>
    /\ reply' = NoReply
    /\ raised' = "none"
    /\ result' = NoResult
    /\ response' = NoResponse
    /\ UNCHANGED <<accounts, database>>

PathTexts == { <<"I"," ","h","a","v","e"," ","a"," ","b","a","d"," ","h","e","a","d","a","c","h","e">>, <<"W","h","a","t","'","s"," ","t","h","e"," ","w","e","a","t","h","e","r","?">> }

Next ==
    \/ \E body \in InteractiveBodies : InteractiveRoute(body)
    \/ \E setup_ok \in BOOLEAN : InteractiveSetup(setup_ok)
    \/ \E r \in InteractiveReplies : SendSucceeds(r)
    \/ SendFails
    \/ Sleep
    \/ InteractiveReturn
    \/ \E data \in PathTexts, outcome \in SingleTurnOutcomes(TextReplies) : TextRoute(data, outcome)
    \/ \E data \in PathTexts, outcome \in SingleTurnOutcomes(GenericReplies) : GenericRoute(data, outcome)
    \/ \E term \in PathTexts, urls \in ImageUrlLists : ImageRoute(term, urls)
    \/ Reset

Spec == Init /\ [][Next]_vars

\* ------------------------------------------------------- account routes
NoRow == [id |-> 0, email |-> "", password |-> "", full_name |-> ""]

\* query.first() over the rows at the positions `matching`: the first row, or None
First(table, matching) ==
    IF matching = {} THEN NoRow
    ELSE table[CHOOSE i \in matching : \A j \in matching : i <= j]

\* Model.query.get(id)
GetById(table, id) == First(table, {i \in DOMAIN table : table[i].id = id})

\* Model.query.filter_by(email=email).first()
ByEmail(table, email) == First(table, {i \in DOMAIN table : table[i].email = email})

\* Model.query.filter_by(email=email, password=password).first()
ByCredentials(table, email, password) ==
    First(table, {i \in DOMAIN table :
                     table[i].email = email /\ table[i].password = password})

\* The row db.session.add and commit store for a form: the key is the next integer.
NewRow(table, form) ==
    [id |-> Len(table) + 1, email |-> form.email, password |-> form.password,
     full_name |-> form.full_name]

\* session['user_id'], session['user_name'], session['user_type'] after a login
LoggedIn(row, role) ==
    [user_id |-> row.id, user_name |-> row.full_name, user_type |-> role]

\* flash(message): Flask keeps the messages not yet shown in the session, under
\* '_flashes'.  The model keeps that there are some, not which.
Flash(s) == Put(s, "_flashes", TRUE)

\* get_flashed_messages() in a template: session.pop('_flashes')
PopFlashes(s) == [k \in (DOMAIN s) \ {"_flashes"} |-> s[k]]

already_registered == "Email already registered, Please Login ."

invalid_login == "Invalid email or password. Please try again."

\* Rows stored plus rows about to be stored.
Claimed == Len(users) + Len(doctors) + Cardinality({c \in Clients : apc[c] = "insert"})

TableOf(role) == IF role = "doctor" THEN doctors ELSE users

\* A registration that stores the form without looking for its email first.
RegisterRequestUnchecked(c, role, form) ==
    /\ apc[c] = "idle"
    /\ form.complete
    /\ Claimed < MaxRecords
    /\ apc' = [apc EXCEPT ![c] = "insert"]
    /\ pending' = [pending EXCEPT ![c] =
                      [role |-> role, email |-> form.email, password |-> form.password,
                       full_name |-> form.full_name, complete |-> TRUE]]
    /\ UNCHANGED <<users, doctors, session, page>>
    /\ UNCHANGED <<chat, database>>

\* POST /register-user and POST /register-doctor, from the reading of the form
\* to the test `if Model.query.filter_by(email=email).first():`
RegisterRequest(c, role, form) ==
    /\ apc[c] = "idle"
    /\ IF ~form.complete
       THEN /\ page' = [page EXCEPT ![c] = Abort(400)]
            /\ UNCHANGED <<apc, pending>>
       ELSE IF ByEmail(TableOf(role), form.email) # NoRow
       THEN /\ page' = [page EXCEPT ![c] = Render("login.html", already_registered)]
            /\ UNCHANGED <<apc, pending>>
       ELSE /\ Claimed < MaxRecords
            /\ apc' = [apc EXCEPT ![c] = "insert"]
            /\ pending' = [pending EXCEPT ![c] =
                               [role |-> role, email |-> form.email,
                                password |-> form.password,
                                full_name |-> form.full_name, complete |-> TRUE]]
            /\ UNCHANGED page
    /\ UNCHANGED <<users, doctors, session>>
    /\ UNCHANGED <<chat, database>>

\* The constraint of both tables on email: a commit that would store an email
\* a second time raises IntegrityError.
CommitFails(table, row) == ByEmail(table, row.email) # NoRow

\* The rest of the registration: add, commit, log the new account in, redirect.
RegisterInsert(c) ==
    /\ apc[c] = "insert"
    /\ LET role == pending[c].role
           table == TableOf(role)
           row == NewRow(table, pending[c])
       IN  IF CommitFails(table, row)
           THEN /\ page' = [page EXCEPT ![c] = Abort(500)]
                /\ UNCHANGED <<users, doctors, session>>
           ELSE /\ users' = IF role = "user" THEN Append(users, row) ELSE users
                /\ doctors' = IF role = "doctor" THEN Append(doctors, row) ELSE doctors
                /\ session' = [session EXCEPT ![c] = Flash(Merge(@, LoggedIn(row, role)))]
                /\ page' = [page EXCEPT ![c] =
                               Redirect(IF role = "doctor" THEN "dashboard_doctor"
                                        ELSE "dashboard_user")]
    /\ apc' = [apc EXCEPT ![c] = "idle"]
    /\ pending' = [pending EXCEPT ![c] = NoForm]
    /\ UNCHANGED <<chat, database>>

\* POST /login
Login(c, email, password) ==
    /\ apc[c] = "idle"
    /\ LET doctor == ByCredentials(doctors, email, password)
           user == ByCredentials(users, email, password)
       IN  IF doctor # NoRow
           THEN /\ session' = [session EXCEPT ![c] = Flash(Merge(@, LoggedIn(doctor, "doctor")))]
                /\ page' = [page EXCEPT ![c] = Redirect("dashboard_doctor")]
           ELSE IF user # NoRow
           THEN /\ session' = [session EXCEPT ![c] = Flash(Merge(@, LoggedIn(user, "user")))]
                /\ page' = [page EXCEPT ![c] = Redirect("dashboard_user")]
           ELSE /\ page' = [page EXCEPT ![c] = Render("login.html", invalid_login)]
                /\ UNCHANGED session
    /\ UNCHANGED <<users, doctors, apc, pending>>
    /\ UNCHANGED <<chat, database>>

\* GET /logout
Logout(c) ==
    /\ apc[c] = "idle"
    /\ session' = [session EXCEPT ![c] = Flash(EmptyDict)]
    /\ page' = [page EXCEPT ![c] = Redirect("index")]
    /\ UNCHANGED <<users, doctors, apc, pending>>
    /\ UNCHANGED <<chat, database>>

\* A dashboard that looks for the record without testing the type of the session.
DashboardAnyType(c, role) ==
    /\ apc[c] = "idle"
    /\ LET row == IF Has(session[c], "user_id")
                  THEN GetById(TableOf(role), session[c]["user_id"])
                  ELSE NoRow
           denied == \/ ~Has(session[c], "user_id")
                     \/ row = NoRow
       IN  IF denied
           THEN /\ session' = [session EXCEPT ![c] = Flash(@)]
                /\ page' = [page EXCEPT ![c] = Redirect("login")]
           ELSE /\ page' = [page EXCEPT ![c] =
                               RenderRecord(IF role = "doctor" THEN "dashboard_doctor.html"
                                            ELSE "dashboard_user.html", row)]
                /\ UNCHANGED session
    /\ UNCHANGED <<users, doctors, apc, pending>>
    /\ UNCHANGED <<chat, database>>

\* GET /dashboard-user and GET /dashboard-doctor
Dashboard(c, role) ==
    /\ apc[c] = "idle"
    /\ LET row == IF Has(session[c], "user_id")
                  THEN GetById(TableOf(role), session[c]["user_id"])
                  ELSE NoRow
           denied == \/ ~Has(session[c], "user_id")
                     \/ Get(session[c], "user_type", "") # role
                     \/ row = NoRow
       IN  IF denied
           THEN /\ session' = [session EXCEPT ![c] = Flash(@)]
                /\ page' = [page EXCEPT ![c] = Redirect("login")]
           ELSE /\ page' = [page EXCEPT ![c] =
                               RenderRecord(IF role = "doctor" THEN "dashboard_doctor.html"
                                            ELSE "dashboard_user.html", row)]
                /\ UNCHANGED session
    /\ UNCHANGED <<users, doctors, apc, pending>>
    /\ UNCHANGED <<chat, database>>

\* GET /login: the form is rendered, and its template shows the flashed messages.
LoginPage(c) ==
    /\ apc[c] = "idle"
    /\ session' = [session EXCEPT ![c] = PopFlashes(@)]
    /\ page' = [page EXCEPT ![c] = Render("login.html", "")]
    /\ UNCHANGED <<users, doctors, apc, pending>>
    /\ UNCHANGED <<chat, database>>

AccountNext ==
    \/ \E c \in Clients, role \in Roles, form \in RegistrationForms :
           RegisterRequest(c, role, form)
    \/ \E c \in Clients : RegisterInsert(c)
    \/ \E c \in Clients, email \in Emails, password \in Passwords :
           Login(c, email, password)
    \/ \E c \in Clients : Logout(c)
    \/ \E c \in Clients, role \in Roles : Dashboard(c, role)
    \/ \E c \in Clients : LoginPage(c)

AccountSpec == Init /\ [][AccountNext]_vars


\* ------------------------------------------------- db_connect_sync.py
\* One call on the pool or on a connection, as the log keeps it: `held` says
\* whether the connection was checked out by this call when the call was made.
Entry(op, c, arg, exc) ==
    [op |-> op, conn |-> c, arg |-> arg, exc |-> exc,
     held |-> c \in Connections /\ connection_pool[c] = "call"]

Returns(value) == [kind |-> "return", what |-> value]

Raises(exc) == [kind |-> "raise", what |-> exc]

\* An exception on its way to the except clauses of the function.
InFlight(exc) == [kind |-> "except", what |-> exc]

\* The end of the loop body of execute_query without return or raise.
Continues == [kind |-> "continue", what |-> ""]

\* A helper is called: its locals are set, nothing else has happened yet.
DbCall(c) ==
    /\ dpc = "idle"
    /\ Len(persisted) < MaxPersisted
    /\ db_call' = [fn |-> c.fn, queries |-> c.queries, retries |-> c.retries,
                   base |-> persisted]
    /\ conn' = 0
    /\ retry_count' = 0
    /\ item' = 1
    /\ dblog' = <<>>
    /\ IF c.fn = "execute_query" /\ ~(0 < c.retries)
       THEN /\ flow' = Raises("Exception")
            /\ dpc' = "done"
       ELSE /\ flow' = NoFlow
            /\ dpc' = "get"
    /\ UNCHANGED <<connection_pool, txn, persisted>>
    /\ UNCHANGED <<chat, accounts>>

\* What get_connection can meet: a free connection that is set up, a free
\* connection whose SET statement fails, no connection to be had.
GetOutcomes ==
    {[k |-> "connected", c |-> c, exc |-> ""] : c \in Connections}
    \cup {[k |-> "setup_failed", c |-> c, exc |-> "OperationalError"] : c \in Connections}
    \cup {[k |-> "connect_failed", c |-> 0, exc |-> "OperationalError"],
          [k |-> "exhausted", c |-> 0, exc |-> "PoolError"]}

\* getconn hands out a connection that is free, and raises PoolError when
\* every connection is checked out.
Possible(outcome) ==
    CASE outcome.k \in {"connected", "setup_failed"} -> connection_pool[outcome.c] = "free"
      [] outcome.k = "exhausted" -> \A c \in Connections : connection_pool[c] # "free"
      [] OTHER -> TRUE

\* `conn = get_connection()`: getconn, the SET statement, and putconn if that
\* statement fails; `conn` is assigned only if get_connection returns.
GetConnection(outcome) ==
    /\ dpc = "get"
    /\ Possible(outcome)
    /\ item' = 1
    /\ IF outcome.k = "connected"
       THEN /\ connection_pool' = [connection_pool EXCEPT ![outcome.c] = "call"]
            /\ conn' = outcome.c
            /\ dblog' = Append(dblog, [Entry("getconn", outcome.c, "", "") EXCEPT !.held = TRUE])
            /\ dpc' = IF db_call.queries = <<>> THEN "commit" ELSE "run"
            /\ UNCHANGED flow
       ELSE /\ dblog' =
                 IF outcome.k = "setup_failed"
                 THEN dblog \o << [Entry("getconn", outcome.c, "", "") EXCEPT !.held = TRUE],
                                  [Entry("putconn", outcome.c, "", "") EXCEPT !.held = TRUE],
                                  Entry("get_connection", 0, "", outcome.exc) >>
                 ELSE Append(dblog, Entry("get_connection", 0, "", outcome.exc))
            /\ flow' = InFlight(outcome.exc)
            /\ dpc' = "except"
            /\ UNCHANGED <<connection_pool, conn>>
    /\ UNCHANGED <<db_call, retry_count, txn, persisted>>
    /\ UNCHANGED <<chat, accounts>>

\* What a statement or a commit can raise ("" for nothing).
StatementOutcomes == {"", "OperationalError", "IntegrityError"}

\* A cursor in autocommit mode: the effect of a statement is permanent at once.
ExecuteAutocommit(exc) ==
    /\ dpc = "run"
    /\ LET query == db_call.queries[item]
       IN  /\ dblog' = Append(dblog, Entry("execute", conn, query, exc))
           /\ IF exc # ""
              THEN /\ flow' = InFlight(exc)
                   /\ dpc' = "except"
                   /\ UNCHANGED <<item, txn, persisted>>
              ELSE /\ persisted' = Append(persisted, query)
                   /\ UNCHANGED txn
                   /\ IF item < Len(db_call.queries)
                      THEN /\ item' = item + 1
                           /\ UNCHANGED <<dpc, flow>>
                      ELSE /\ UNCHANGED item
                           /\ IF db_call.fn \in {"fetch_results", "fetch_dataframe"}
                              THEN /\ flow' = Returns("rows")
                                   /\ dpc' = "finally"
                              ELSE /\ dpc' = "commit"
                                   /\ UNCHANGED flow
    /\ UNCHANGED <<db_call, conn, retry_count, connection_pool>>
    /\ UNCHANGED <<chat, accounts>>

\* cursor.execute of the next statement, inside `with conn.cursor()`
Execute(exc) ==
    /\ dpc = "run"
    /\ LET query == db_call.queries[item]
       IN  /\ dblog' = Append(dblog, Entry("execute", conn, query, exc))
           /\ IF exc # ""
              THEN /\ flow' = InFlight(exc)
                   /\ dpc' = "except"
                   /\ UNCHANGED <<item, txn>>
              ELSE /\ txn' = [txn EXCEPT ![conn] = Append(@, query)]
                   /\ IF item < Len(db_call.queries)
                      THEN /\ item' = item + 1
                           /\ UNCHANGED <<dpc, flow>>
                      ELSE /\ UNCHANGED item
                           /\ IF db_call.fn \in {"fetch_results", "fetch_dataframe"}
                              THEN /\ flow' = Returns("rows")
                                   /\ dpc' = "finally"
                              ELSE /\ dpc' = "commit"
                                   /\ UNCHANGED flow
    /\ UNCHANGED <<db_call, conn, retry_count, connection_pool, persisted>>
    /\ UNCHANGED <<chat, accounts>>

\* conn.commit() and the return that follows it
Commit(exc) ==
    /\ dpc = "commit"
    /\ dblog' = Append(dblog, Entry("commit", conn, "", exc))
    /\ IF exc # ""
       THEN /\ flow' = InFlight(exc)
            /\ dpc' = "except"
            /\ UNCHANGED <<txn, persisted>>
       ELSE /\ persisted' = persisted \o txn[conn]
            /\ txn' = [txn EXCEPT ![conn] = <<>>]
            /\ flow' = Returns(IF db_call.fn = "execute_query" THEN "rowcount" ELSE "None")
            /\ dpc' = "finally"
    /\ UNCHANGED <<db_call, conn, retry_count, item, connection_pool>>
    /\ UNCHANGED <<chat, accounts>>

\* `if conn: conn.rollback()` of an except clause
Rollback(entries) ==
    IF conn # 0 THEN Append(entries, Entry("rollback", conn, "", "")) ELSE entries

\* The except clauses: execute_query retries after an OperationalError and
\* re-raises anything else, the fetch functions return an empty result,
\* batch_execute rolls back and re-raises.
Except ==
    /\ dpc = "except"
    /\ IF db_call.fn \in {"fetch_results", "fetch_dataframe"}
       THEN /\ flow' = Returns("empty")
            /\ UNCHANGED <<dblog, txn, retry_count>>
       ELSE /\ txn' = IF conn # 0 THEN [txn EXCEPT ![conn] = <<>>] ELSE txn
            /\ IF db_call.fn = "execute_query" /\ flow.what = "OperationalError"
               THEN /\ retry_count' = retry_count + 1
                    /\ dblog' = Append(Rollback(dblog), Entry("sleep", 0, "", ""))
                    /\ flow' = Continues
               ELSE /\ dblog' = Rollback(dblog)
                    /\ flow' = Raises(flow.what)
                    /\ UNCHANGED retry_count
    /\ dpc' = "finally"
    /\ UNCHANGED <<db_call, conn, item, connection_pool, persisted>>
    /\ UNCHANGED <<chat, accounts>>

\* The finally clause: `if conn: return_connection(conn)`.  putconn raises
\* PoolError for a connection that nobody has checked out.  Then the function
\* returns or raises, or execute_query tests its loop condition again.
Finally ==
    /\ dpc = "finally"
    /\ LET put == conn # 0
           unkeyed == put /\ connection_pool[conn] = "free"
           left == IF unkeyed THEN Raises("PoolError") ELSE flow
       IN  /\ dblog' = IF put
                       THEN Append(dblog, Entry("putconn", conn, "",
                                                IF unkeyed THEN "PoolError" ELSE ""))
                       ELSE dblog
           /\ connection_pool' = IF put THEN [connection_pool EXCEPT ![conn] = "free"]
                                 ELSE connection_pool
           /\ txn' = IF put /\ connection_pool[conn] = "call"
                     THEN [txn EXCEPT ![conn] = <<>>]
                     ELSE txn
           /\ IF left.kind # "continue"
              THEN flow' = left /\ dpc' = "done"
              ELSE IF retry_count < db_call.retries
              THEN flow' = NoFlow /\ dpc' = "get"
              ELSE flow' = Raises("Exception") /\ dpc' = "done"
    /\ UNCHANGED <<db_call, conn, retry_count, item, persisted>>
    /\ UNCHANGED <<chat, accounts>>

\* Another thread takes a connection out of the pool.
OtherGet(c) ==
    /\ connection_pool[c] = "free"
    /\ connection_pool' = [connection_pool EXCEPT ![c] = "other"]
    /\ UNCHANGED <<dpc, db_call, conn, retry_count, item, flow, txn, persisted, dblog>>
    /\ UNCHANGED <<chat, accounts>>

\* Another thread puts its connection back.
OtherPut(c) ==
    /\ connection_pool[c] = "other"
    /\ connection_pool' = [connection_pool EXCEPT ![c] = "free"]
    /\ UNCHANGED <<dpc, db_call, conn, retry_count, item, flow, txn, persisted, dblog>>
    /\ UNCHANGED <<chat, accounts>>

\* The caller has the result; the helper can be called again.
DbReset ==
    /\ dpc = "done"
    /\ dpc' = "idle"
    /\ db_call' = NoCall
    /\ conn' = 0
    /\ retry_count' = 0
    /\ item' = 1
    /\ flow' = NoFlow
    /\ dblog' = <<>>
    /\ UNCHANGED <<connection_pool, txn, persisted>>
    /\ UNCHANGED <<chat, accounts>>

DbNext ==
    \/ \E c \in DbCalls : DbCall(c)
    \/ \E outcome \in GetOutcomes : GetConnection(outcome)
    \/ \E exc \in StatementOutcomes : Execute(exc)
    \/ \E exc \in StatementOutcomes : Commit(exc)
    \/ Except
    \/ Finally
    \/ \E c \in Connections : OtherGet(c)
    \/ \E c \in Connections : OtherPut(c)
    \/ DbReset

DbSpec == Init /\ [][DbNext]_vars
\* --------------------------------------------------------- properties
InteractiveDone == pc = "done" /\ request.route = "/gemini-interactive"

SingleTurnDone == pc = "done" /\ request.route \in {"/gemini", "/gemini_generic"}

\* The response carries a payload under `data`.
HasPayload == response.body.t = "dict" /\ Has(response.body.d, "data")

Payload == response.body.d["data"]

\* The payload is what gemini_interactive returned, after the route's failsafes.
FromOrchestrator == InteractiveDone /\ result.exc = "none" /\ response.status = 200

\* conversation_history as the request carried it
BodyHistory == Get(request.body.v, "conversation_history", JNull)

\* The fields of the response schema of gemini_interactive.
SchemaFields ==
    {"response", "needs_follow_up", "follow_up_question", "follow_up_type",
     "follow_up_options", "rate_symptoms", "symptoms_to_rate", "is_medical_related",
     "is_medical_related_prompt", "can_provide_structured_response",
     "conversation_complete", "current_step", "total_steps", "Symptoms", "Remedies",
     "Precautions", "Guidelines", "medication", "Disclaimer", "image_search_term"}

\* C1: in every payload /gemini-interactive returns, conversation_complete=true
\* implies needs_follow_up=false and follow_up_question="".
C1_CompleteClearsFollowUp ==
    (InteractiveDone /\ HasPayload /\ Get(Payload, "conversation_complete", FALSE))
        => /\ ~Get(Payload, "needs_follow_up", FALSE)
           /\ Get(Payload, "follow_up_question", <<>>) = <<>>

NonMedicalCleared(d) ==
    ~d["is_medical_related"]
        => /\ d["Symptoms"] = <<".">>
           /\ d["Remedies"] = ""
           /\ d["Precautions"] = ""
           /\ d["Guidelines"] = ""
           /\ d["medication"] = <<>>
           /\ d["conversation_complete"]

\* C2: in every result of gemini_interactive, and in every payload the route
\* returns from it, is_medical_related=false implies Symptoms=".", empty Remedies,
\* Precautions and Guidelines, medication=[] and conversation_complete=true.
C2_NonMedicalCleared ==
    /\ pc = "interactive_return" => NonMedicalCleared(result.val)
    /\ FromOrchestrator => NonMedicalCleared(Payload)

\* C2 witness: the model marked a reply that lists medication as non-medical.
C2_Witness ==
    /\ FromOrchestrator
    /\ ~Payload["is_medical_related"]
    /\ reply.k = "dict"
    /\ Get(reply.v, "medication", <<>>) # <<>>
    /\ ~Get(reply.v, "conversation_complete", FALSE)

\* C3: every response of /gemini-interactive carries exactly the fields of the
\* response schema, each with its documented type.
C3_ExactSchema ==
    InteractiveDone
        => /\ HasPayload
           /\ DOMAIN Payload = SchemaFields
           /\ \A k \in {"needs_follow_up", "rate_symptoms", "is_medical_related",
                        "can_provide_structured_response", "conversation_complete"} :
                  Payload[k] \in BOOLEAN
           /\ Payload["current_step"] \in Int
           /\ Payload["total_steps"] \in Int
           /\ Payload["is_medical_related_prompt"] \in {"Yes", "No"}

\* The request carries a message that is one of the restart words.
IsRestart ==
    /\ Has(request.body.v, "message")
    /\ request.body.v["message"].t = "str"
    /\ Lower(Strip(request.body.v["message"].s)) \in restart_words

\* C4 as stated: a request with len(conversation_history) + 1 >= 100 is answered
\* with conversation_complete=true, whatever the message text.
C4_FailsafeAnyMessage ==
    (InteractiveDone /\ total_messages(BodyHistory) >= FailsafeMessages)
        => HasPayload /\ Get(Payload, "conversation_complete", FALSE)

\* C4 amended: a request that carries a `message` other than a restart word and
\* has len(conversation_history) + 1 >= 100 is answered with
\* conversation_complete=true, whatever the model replied.
C4_FailsafeForcesCompletion ==
    (/\ InteractiveDone
     /\ total_messages(BodyHistory) >= FailsafeMessages
     /\ Has(request.body.v, "message")
     /\ ~IsRestart)
        => HasPayload /\ Get(Payload, "conversation_complete", FALSE)

\* C4 witness: the model said the conversation was not complete and the route
\* completed it at the hundredth message.
C4_Witness ==
    /\ FromOrchestrator
    /\ total_messages(BodyHistory) = FailsafeMessages
    /\ reply.k = "dict"
    /\ Has(reply.v, "conversation_complete")
    /\ ~reply.v["conversation_complete"]
    /\ Get(reply.v, "is_medical_related", TRUE)
    /\ Payload["conversation_complete"]

\* The calls of send_message in the log, by position.
CallsIn(l) == {i \in DOMAIN l : l[i] # "sleep"}

FailuresUpTo(l, i) == Cardinality({j \in 1..i : l[j] = "fail"})

\* C5: one invocation of gemini_interactive calls the model at most 3 times; a
\* call is repeated only after the previous one raised, none follows a success,
\* and a 1-second wait occurs only between a failed attempt and the next one
\* (never after the third failure).
C5_RetryDiscipline ==
    pc \in {"interactive_call", "interactive_sleep", "interactive_return"}
        => /\ Cardinality(CallsIn(log)) <= max_retries
           /\ \A i \in DOMAIN log : log[i] = "ok" => i = Len(log)
           /\ \A i \in CallsIn(log) :
                  i > 1 => (i > 2 /\ log[i - 1] = "sleep" /\ log[i - 2] = "fail")
           /\ \A i \in DOMAIN log :
                  log[i] = "sleep"
                      => /\ i > 1
                         /\ log[i - 1] = "fail"
                         /\ FailuresUpTo(log, i) < max_retries
           /\ (pc = "interactive_return" /\ log # <<>>) => log[Len(log)] # "sleep"

\* C5 witness: three failed calls with a wait after the first and the second.
C5_Witness ==
    /\ pc = "interactive_return"
    /\ log = <<"fail", "sleep", "fail", "sleep", "fail">>

\* C6: gemini_interactive never raises; an exception in the model setup, the
\* instruction selection, the call (after the third failure) or the parsing and
\* repair of the reply gives the fixed fallback: needs_follow_up=true, the two
\* retry options, conversation_complete=false, can_provide_structured_response=false.
C6_AlwaysFallsBack ==
    pc = "interactive_return"
        => /\ result.exc = "none"
           /\ raised # "none"
                => /\ result.val = InteractiveFallback
                   /\ result.val["needs_follow_up"]
                   /\ result.val["follow_up_options"]
                        = <<"Try asking again", "Start a new conversation">>
                   /\ ~result.val["conversation_complete"]
                   /\ ~result.val["can_provide_structured_response"]

\* C6 witness: the reply was JSON but no object, and the repair raised.
C6_Witness ==
    /\ pc = "interactive_return"
    /\ raised = "AttributeError"
    /\ reply = ReplyArray

TextFieldsOf(route) ==
    IF route = "/gemini" THEN TextFields ELSE TextFields \ {"response"}

\* C8: gemini_text and gemini_generic make exactly one model call per invocation
\* and on any error (setup failure, call failure, a reply that is not JSON or no
\* object) return the static fallback with every schema field and
\* is_medical_related_prompt="No", instead of raising.
C8_SingleCallAndFallback ==
    SingleTurnDone
        => /\ Len(log) = 1
           /\ result.exc = "none"
           /\ reply.k # "dict"
                => /\ DOMAIN result.val = TextFieldsOf(request.route)
                   /\ result.val["is_medical_related_prompt"] = "No"

ChatbotRoutes == {"/gemini", "/gemini_generic", "/gemini-interactive", "/gemini/image"}

Wrapped == response.body.t = "dict" /\ DOMAIN response.body.d = {"data"}

Success == response.status >= 200 /\ response.status < 300

\* C9 as stated: every 2xx response of every chatbot route, /gemini/image/<term>
\* included, is a JSON object with the payload under a top-level `data` key.
C9_AllRoutesWrapped ==
    (pc = "done" /\ request.route \in ChatbotRoutes /\ Success) => Wrapped

\* C9 amended: every 2xx response of /gemini/<text>, /gemini_generic/<text> and
\* /gemini-interactive is a JSON object with the payload under a top-level `data`
\* key; /gemini/image/<term> answers with a bare JSON array of URLs.
C9_TextRoutesWrapped ==
    (pc = "done" /\ Success)
        => IF request.route = "/gemini/image"
           THEN response.body.t = "list"
           ELSE Wrapped

\* C9 witness: /gemini answered 200 with the model's reply.
C9_Witness ==
    /\ pc = "done"
    /\ request.route = "/gemini"
    /\ response.status = 200
    /\ reply.k = "dict"

SuccessFields(route) ==
    IF route = "/gemini-interactive" THEN SchemaFields ELSE TextFieldsOf(route)

\* C10: a chatbot route that fails internally answers non-2xx with a fallback
\* payload that has the fields of the route's success payload.
C10_ErrorPayloadMatchesSchema ==
    (pc = "done" /\ response.status = 500)
        => HasPayload /\ SuccessFields(request.route) \subseteq DOMAIN Payload

\* The body of the request fails the route's validation.
InvalidBody ==
    \/ request.body.k = "malformed"
    \/ ~Has(request.body.v, "message")
    \/ request.body.v["message"].t # "str"
    \/ BodyHistory.t \notin {"null", "list"}

\* C11: every validation failure on the body of a POST /gemini-interactive
\* request (not JSON, no message, message not a string, conversation_history
\* neither a list nor null) is answered 400 with an explanatory JSON document,
\* and the model is not called.
C11_ValidationAnswers400 ==
    (InteractiveDone /\ InvalidBody)
        => /\ response.status = 400
           /\ response.body.t = "dict"
           /\ Has(response.body.d, "error")
           /\ result = NoResult

\* gemini_interactive was called for the request and the route answered from it.
Answered == InteractiveDone /\ result # NoResult /\ HasPayload

\* The keyword heuristic takes the message for an initial symptom message.
InitialSymptomMessage ==
    /\ ~Truthy(conversation_history)
    /\ AnyTermIn(initial_symptom_keywords, Lower(message))
    /\ ~AnyTermIn(non_medical_keywords, Lower(message))
    /\ ~AnyTermIn(high_severity_keywords, Lower(message))

\* C12: for an initial symptom message (no history, a symptom keyword, no
\* non-medical or high-severity keyword) the response has
\* is_medical_related_prompt="Yes" and needs_follow_up=true, whatever the model
\* replied and whether or not it failed.
C12_InitialSymptomAsksFollowUp ==
    (Answered /\ InitialSymptomMessage)
        => /\ Get(Payload, "is_medical_related_prompt", "") = "Yes"
           /\ Get(Payload, "needs_follow_up", FALSE)

\* The keyword heuristic takes the message for a non-medical one.
NonMedicalMessage ==
    /\ ~AnyTermIn(medical_keywords, Lower(message))
    /\ AnyTermIn(non_medical_keywords, Lower(message))

\* C13: for a message the keyword heuristic classifies as non-medical the
\* response has is_medical_related_prompt="No" and conversation_complete=true,
\* whatever the model replied and whether or not it failed.
C13_NonMedicalMessageCompletes ==
    (Answered /\ NonMedicalMessage)
        => /\ Get(Payload, "is_medical_related_prompt", "") = "No"
           /\ Get(Payload, "conversation_complete", FALSE)

\* A run of capitalised names written without spaces, such as "IbuprofenAcetaminophen".
CapitalisedRun(s) ==
    /\ s # <<>>
    /\ IsUpper(s[1])
    /\ \A i \in DOMAIN s : IsUpper(s[i]) \/ IsLower(s[i])
    /\ Cardinality({i \in DOMAIN s : IsUpper(s[i])}) >= 2

\* The medication list the normalization is described to give.
RECURSIVE ExpectedMedication(_)
ExpectedMedication(meds) ==
    IF meds = <<>> THEN <<>>
    ELSE (IF CapitalisedRun(Head(meds))
          THEN FindAllCapitalised(Head(meds))
          ELSE <<Head(meds)>>)
         \o ExpectedMedication(Tail(meds))

\* C14: medication normalization replaces each string that is a run of
\* capitalised names by the list of those names in order, and keeps a string
\* that is already a single medication name as that one unchanged item.
C14_MedicationNormalized ==
    (/\ pc = "interactive_return"
     /\ raised = "none"
     /\ reply.k = "dict"
     /\ Has(reply.v, "medication")
     /\ result.val["is_medical_related"])
        => result.val["medication"] = ExpectedMedication(reply.v["medication"])

\* C15: every payload the chatbot routes return under `data` (success, restart
\* and error paths alike) has a Disclaimer field holding the standard disclaimer
\* text, whatever Disclaimer the model put in its reply.
C15_StandardDisclaimer ==
    (pc = "done" /\ HasPayload)
        => /\ Has(Payload, "Disclaimer")
           /\ Payload["Disclaimer"] = STANDARD_DISCLAIMER

\* The registration is refused: nothing is stored, the session stays, and the
\* login page says that the email is registered.
Refused(c) ==
    /\ users' = users
    /\ doctors' = doctors
    /\ session' = session
    /\ apc'[c] = "idle"
    /\ page'[c] = Render("login.html", already_registered)

InstructionClasses ==
    { {"Non-Medical Query"},
      {"High Severity Detected"},
      {"Initial Symptom Query"},
      {"User provided symptom rating"},
      {"Continuing Conversation", "Likely Sufficient Info Gathered"},
      {"Sufficient Info Likely Available (long conversation)"} }

SelectionHistories ==
    Histories \cup {History(LongConversation, last) : last \in LastEntries}

\* C17: each of the six instruction classes is selectable: for each class some
\* (message, conversation_history) gets that class's instruction prepended; in
\* particular a history of 10 or more entries can get the long-conversation one.
C17_EveryClassSelectable ==
    \A class \in InstructionClasses :
        \E m \in Messages, h \in SelectionHistories :
            SelectInstruction(m, h).instruction_prefix \in class

\* gemini_interactive has returned what it made of the model's reply object.
Repaired == pc = "interactive_return" /\ raised = "none" /\ reply.k = "dict"

\* C18: in every non-fallback result of gemini_interactive,
\* can_provide_structured_response=true implies that `response` is the canned
\* summary sentence, and a result with can_provide_structured_response=false
\* keeps the model's own `response` text.
C18_BriefResponseWithSummary ==
    Repaired
        => IF result.val["can_provide_structured_response"]
           THEN result.val["response"] = brief_summary
           ELSE result.val["response"] = Get(reply.v, "response", "")

PlainDefaults ==
    [rate_symptoms |-> FALSE, symptoms_to_rate |-> <<>>, image_search_term |-> "",
     Disclaimer |-> STANDARD_DISCLAIMER, follow_up_type |-> "select"]

\* C20: for every JSON object the model returns, whichever fields it omits, the
\* non-fallback result of gemini_interactive contains every field of the
\* response schema, each omitted one set to its default.
C20_EveryFieldFilled ==
    Repaired
        => /\ SchemaFields \subseteq DOMAIN result.val
           /\ \A k \in DOMAIN PlainDefaults :
                  ~Has(reply.v, k) => result.val[k] = PlainDefaults[k]


\* The structured fields of a payload carry more than their placeholders.
NonTrivialSummary(d) ==
    /\ Get(d, "can_provide_structured_response", FALSE)
    /\ Get(d, "Symptoms", <<>>) \notin {<<>>, <<".">>}
    /\ Get(d, "Remedies", "") # ""
    /\ Get(d, "Precautions", "") # ""
    /\ Get(d, "Guidelines", "") # ""

\* C21: every payload /gemini-interactive returns from an orchestrator result
\* with conversation_complete=true and is_medical_related=true, a completion
\* forced by the 100-message failsafe included, has
\* can_provide_structured_response=true, Symptoms neither empty nor ".", and
\* non-empty Remedies, Precautions and Guidelines.
C21_CompleteMedicalHasSummary ==
    (/\ FromOrchestrator
     /\ Get(Payload, "conversation_complete", FALSE)
     /\ Get(Payload, "is_medical_related", FALSE))
        => NonTrivialSummary(Payload)

\* The part of C21 about results the orchestrator itself completed.
C21_OrchestratorCompletionHasSummary ==
    (/\ pc = "interactive_return"
     /\ result.exc = "none"
     /\ result.val["conversation_complete"]
     /\ result.val["is_medical_related"])
        => NonTrivialSummary(result.val)

\* gemini_interactive reached the block that estimates the step count from
\* the last turn of the history.
EstimatedFromLastTurn ==
    /\ request.route = "/gemini-interactive"
    /\ selection # NoSelection
    /\ Truthy(conversation_history)
    /\ ~(Contains(Lower(message), <<"r","a","t","i","n","g">>) /\ RatingPattern(Lower(message)))
    /\ ~NonMedicalMessage
    /\ ~AnyTermIn(high_severity_keywords, Lower(message))

\* The last turn carries the JSON text of an object with a positive
\* total_steps or current_step.
UsableLastTurn(h) ==
    LET entry == h.items[Len(h.items)]
        IntOrAbsent(d, k) == Has(d, k) => d[k].t = "int"
        PositiveInt(d, k) == Has(d, k) /\ d[k].t = "int" /\ d[k].n > 0
    IN  /\ entry.t = "dict"
        /\ Has(entry.d, "parts")
        /\ entry.d["parts"].t = "list"
        /\ entry.d["parts"].items # <<>>
        /\ LET first == entry.d["parts"].items[1]
           IN  /\ first.t = "str"
               /\ first.s.loads.t = "dict"
               /\ \/ PositiveInt(first.s.loads.d, "total_steps")
                  \/ /\ IntOrAbsent(first.s.loads.d, "total_steps")
                     /\ PositiveInt(first.s.loads.d, "current_step")

\* C22: when gemini_interactive estimates the step count from the last turn of
\* a non-empty history, a turn it cannot use (missing parts, text that is not
\* JSON, JSON that is not an object, total_steps or current_step of a
\* non-numeric type, an entry that is not a dict) leaves the default estimate
\* of 4 in place: no exception leaves the estimate, and the function does not
\* return before it has called the model.
C22_UnusableLastTurnKeepsDefault ==
    (EstimatedFromLastTurn /\ ~UsableLastTurn(conversation_history))
        => /\ selection.exc = "none"
           /\ selection.estimated_total_steps = DefaultEstimate
           /\ pc = "interactive_return" => log # <<>>

\* The cases of C22 that the except clause of the estimate covers.
C22_SwallowedErrorsKeepDefault ==
    (/\ EstimatedFromLastTurn
     /\ LastTurnEstimate(conversation_history).exc
            \in {"IndexError", "KeyError", "JSONDecodeError"})
        => /\ selection.exc = "none"
           /\ selection.estimated_total_steps = DefaultEstimate
           /\ pc = "interactive_return" => log # <<>>

\* A last turn of one of the swallowed kinds has been estimated from.
C22_SwallowedWitness ==
    /\ EstimatedFromLastTurn
    /\ LastTurnEstimate(conversation_history).exc = "JSONDecodeError"
    /\ pc = "interactive_return"
    /\ raised = "none"

\* gemini_interactive has chosen the instruction for the message.
InstructionChosen ==
    /\ request.route = "/gemini-interactive"
    /\ selection # NoSelection
    /\ selection.exc = "none"

\* C23: a message that contains a high-severity keyword is never given the
\* Non-Medical Query instruction: it receives the High Severity instruction,
\* whatever other words it contains and whatever the history.
C23_HighSeverityWins ==
    (InstructionChosen /\ AnyTermIn(high_severity_keywords, Lower(message)))
        => selection.instruction_prefix = "High Severity Detected"

\* The part of C23 that holds: a high-severity message that the non-medical
\* test does not claim gets the High Severity instruction.
C23_HighSeverityUnlessNonMedical ==
    (/\ InstructionChosen
     /\ AnyTermIn(high_severity_keywords, Lower(message))
     /\ ~NonMedicalMessage)
        => selection.instruction_prefix = "High Severity Detected"

\* The restart answer: no call of gemini_interactive and the restart payload.
RestartAnswered ==
    /\ result = NoResult
    /\ log = <<>>
    /\ response.status = 200
    /\ HasPayload
    /\ Get(Payload, "conversation_restarted", FALSE)
    /\ ~Get(Payload, "conversation_complete", TRUE)
    /\ ~Get(Payload, "needs_follow_up", TRUE)

\* C24 as stated: when the trimmed, lower-cased message is one of "restart",
\* "start over", "reset", "new conversation", the route calls no model and
\* answers 200 with conversation_restarted=true, conversation_complete=false
\* and needs_follow_up=false, for any conversation_history.
C24_RestartAnyHistory ==
    (InteractiveDone /\ IsRestart) => RestartAnswered

\* C24 amended: the same for any conversation_history that is a list or null
\* (or absent); a history of another type is answered 400.
C24_RestartValidHistory ==
    /\ (InteractiveDone /\ IsRestart /\ BodyHistory.t \in {"null", "list"})
          => RestartAnswered
    /\ (InteractiveDone /\ IsRestart /\ BodyHistory.t \notin {"null", "list"})
          => response.status = 400 /\ result = NoResult /\ log = <<>>

\* C24 witness: a restart word, typed with capitals and blanks, arrives with a
\* history long enough for the failsafe.
C24_Witness ==
    /\ InteractiveDone
    /\ IsRestart
    /\ request.body.v["message"].s # Lower(Strip(request.body.v["message"].s))
    /\ BodyHistory.t = "list"
    /\ Len(BodyHistory.items) = FailsafeMessages - 1
    /\ RestartAnswered

\* Every call made on a connection was made while this call had it checked out.
OnlyHeldConnectionsUsed ==
    \A i \in DOMAIN dblog :
        dblog[i].op \in {"execute", "commit", "rollback", "putconn"} => dblog[i].held

\* The helper has returned or raised, and none of the pool's connections is
\* still checked out by it.
NothingLeftCheckedOut ==
    dpc = "done" => \A c \in Connections : connection_pool[c] # "call"

\* C25: in execute_query, fetch_results, fetch_dataframe and batch_execute
\* every connection obtained from the pool is returned to it exactly once on
\* every path: after the call no connection is left checked out, and no
\* connection is put back twice or used after it was put back, also when a
\* later retry attempt fails to obtain a connection.
C25_ConnectionsReturnedOnce ==
    OnlyHeldConnectionsUsed /\ NothingLeftCheckedOut

\* The part of C25 that holds: nothing is left checked out by any of the four
\* functions, and the three functions without a retry loop use and put back
\* only the connection they hold.
C25_SingleAttemptFunctions ==
    /\ NothingLeftCheckedOut
    /\ db_call.fn # "execute_query" => OnlyHeldConnectionsUsed

\* The positions of the log where get_connection, a statement or a commit raised.
Failures ==
    {i \in DOMAIN dblog :
        dblog[i].op \in {"get_connection", "execute", "commit"} /\ dblog[i].exc # ""}

OperationalErrors == {i \in Failures : dblog[i].exc = "OperationalError"}

\* After the failure at position f the connection it was met on was rolled back.
RolledBackAfter(f) ==
    dblog[f].conn # 0
        => \E j \in DOMAIN dblog :
               j > f /\ dblog[j].op = "rollback" /\ dblog[j].conn = dblog[f].conn

InExecuteQuery == db_call.fn = "execute_query"

\* The statement is run at most `retries` times.
AtMostRetriesRuns ==
    Cardinality({i \in DOMAIN dblog : dblog[i].op = "execute"}) <= db_call.retries

\* A further attempt starts only after an OperationalError that was rolled
\* back, and never after a commit.
RetryOnlyAfterOperationalError ==
    (dpc = "get" /\ dblog # <<>>)
        => /\ Failures # {}
           /\ LET f == CHOOSE i \in Failures : \A j \in Failures : j <= i
              IN  dblog[f].exc = "OperationalError" /\ RolledBackAfter(f)
           /\ \A i \in DOMAIN dblog : dblog[i].op # "commit" \/ dblog[i].exc # ""

\* The first successful commit ends the call: the row count is returned and
\* nothing follows but the return of the connection.
ReturnsAtFirstCommit ==
    \A i \in DOMAIN dblog :
        (dblog[i].op = "commit" /\ dblog[i].exc = "")
            => /\ dpc \in {"finally", "done"}
               /\ flow = Returns("rowcount")
               /\ \A j \in DOMAIN dblog : j > i => dblog[j].op = "putconn"

\* Any other exception is raised to the caller after the rollback, with no
\* further attempt.
OtherErrorsRaised ==
    \A f \in Failures \ OperationalErrors :
        /\ dpc \in {"except", "finally", "done"}
        /\ \A j \in DOMAIN dblog : j > f => dblog[j].op \in {"rollback", "putconn"}
        /\ dpc = "done" => flow = Raises(dblog[f].exc) /\ RolledBackAfter(f)

\* Once `retries` operational errors have occurred the failure exception is raised.
FailsAfterRetries ==
    (dpc = "done" /\ Cardinality(OperationalErrors) = db_call.retries)
        => flow = Raises("Exception")

\* C26: execute_query runs the statement at most `retries` times: it starts a
\* new attempt only after a psycopg2.OperationalError (after rolling back),
\* returns the affected row count at the first successful commit with no
\* further attempt, raises any other exception after rollback without
\* retrying, and raises a failure exception once `retries` operational errors
\* have occurred.
C26_ExecuteQueryRetries ==
    InExecuteQuery
        => /\ AtMostRetriesRuns
           /\ RetryOnlyAfterOperationalError
           /\ ReturnsAtFirstCommit
           /\ OtherErrorsRaised
           /\ FailsAfterRetries

\* The part of C26 that holds: everything but the failure exception after
\* `retries` operational errors.
C26_AttemptsAndOutcomes ==
    InExecuteQuery
        => /\ AtMostRetriesRuns
           /\ RetryOnlyAfterOperationalError
           /\ ReturnsAtFirstCommit
           /\ OtherErrorsRaised

\* The failure exception is raised after `retries` operational errors in every
\* call that used and put back only connections it held.
C26_FailsAfterRetriesIfHeld ==
    (InExecuteQuery /\ OnlyHeldConnectionsUsed) => FailsAfterRetries

InBatchExecute == db_call.fn = "batch_execute"

\* The statements run so far, in the order they were run.
Executed == SelectSeq(dblog, LAMBDA e : e.op = "execute")

\* The batch obtains a connection once and runs, commits and rolls back on it.
OneConnection ==
    /\ Cardinality({i \in DOMAIN dblog : dblog[i].op = "getconn"}) <= 1
    /\ \A i \in DOMAIN dblog :
           dblog[i].op \in {"execute", "commit", "rollback"}
               => dblog[i].conn = conn /\ dblog[i].held

\* The statements run in list order, each after the success of the one before.
RunInListOrder ==
    /\ Len(Executed) <= Len(db_call.queries)
    /\ \A k \in DOMAIN Executed :
           /\ Executed[k].arg = db_call.queries[k]
           /\ k < Len(Executed) => Executed[k].exc = ""

\* One commit at most, after the success of every statement of the list.
CommitOnceAfterAll ==
    /\ Cardinality({i \in DOMAIN dblog : dblog[i].op = "commit"}) <= 1
    /\ \A i \in DOMAIN dblog :
           dblog[i].op = "commit"
               => /\ Len(Executed) = Len(db_call.queries)
                  /\ \A k \in DOMAIN Executed : Executed[k].exc = ""
                  /\ \A j \in DOMAIN dblog : dblog[j].op = "execute" => j < i

\* How the batch ends: with every effect and a return, or with none, a
\* rollback and the exception raised to the caller.
AllOrNothing ==
    dpc = "done"
        => IF Failures = {}
           THEN /\ persisted = db_call.base \o db_call.queries
                /\ flow = Returns("None")
           ELSE /\ persisted = db_call.base
                /\ \A f \in Failures : flow = Raises(dblog[f].exc) /\ RolledBackAfter(f)

\* C27: batch_execute is all-or-nothing: the statements run in list order on
\* one connection, the commit happens once and only after every statement
\* succeeded, and if a statement or the commit fails the transaction is rolled
\* back, none of the batch's effects persist and the exception is re-raised.
C27_BatchAllOrNothing ==
    InBatchExecute
        => OneConnection /\ RunInListOrder /\ CommitOnceAfterAll /\ AllOrNothing

\* C27 witness: the second statement of a batch failed after the first had
\* succeeded, on top of effects that earlier calls had committed.
C27_Witness ==
    /\ InBatchExecute
    /\ dpc = "done"
    /\ db_call.base # <<>>
    /\ Len(Executed) = 2
    /\ Executed[1].exc = ""
    /\ Executed[2].exc = "IntegrityError"
    /\ persisted = db_call.base
    /\ flow = Raises("IntegrityError")

\* No two rows of a table carry the same email.
EmailsUnique ==
    \A role \in Roles :
        \A i, j \in DOMAIN TableOf(role) :
            TableOf(role)[i].email = TableOf(role)[j].email => i = j

\* The registration of client c passed the existence check, and another
\* request has stored its email since.
LostRace(c) ==
    /\ apc[c] = "insert"
    /\ ByEmail(TableOf(pending[c].role), pending[c].email) # NoRow

\* C28: under any interleaving of two concurrent registration requests for
\* the same role with the same email, at most one record with that email is
\* created and the other request receives the 'Email already registered' page.
C28_RegistrationAtomic ==
    [][\A c \in Clients :
           RegisterInsert(c)
               => /\ EmailsUnique'
                  /\ LostRace(c)
                        => page'[c] = Render("login.html", already_registered)]_vars

\* The part of C28 that holds, given the constraint on email: at most one
\* record is created, and the request that lost the race is answered with an
\* error and logged in as nobody.
C28_OneRecordPerEmail ==
    [][\A c \in Clients :
           RegisterInsert(c)
               => /\ EmailsUnique'
                  /\ LostRace(c)
                        => /\ page'[c] = Abort(500)
                           /\ session'[c] = session[c]
                           /\ users' = users
                           /\ doctors' = doctors]_vars

\* The views of the two dashboards.
DashboardView(role) ==
    IF role = "doctor" THEN "dashboard_doctor.html" ELSE "dashboard_user.html"

\* The session of client c carries no login.
LoggedOut(c) == DOMAIN session[c] \cap {"user_id", "user_name", "user_type"} = {}

\* A dashboard is rendered only for a session of its type whose user_id is the
\* id of a record of that type, and it shows that record.
DashboardOnlyForOwner(c, role) ==
    (Dashboard(c, role) /\ page'[c].view = DashboardView(role))
        => /\ Get(session[c], "user_type", "") = role
           /\ Has(session[c], "user_id")
           /\ GetById(TableOf(role), session[c]["user_id"]) # NoRow
           /\ page'[c].record = session[c]["user_id"]

\* A session without a login is sent to /login by both dashboards, and it
\* stays without one until a login or a registration succeeds.
LoggedOutUntilLogin(c) ==
    LoggedOut(c)
        => /\ \A role \in Roles : Dashboard(c, role) => page'[c] = Redirect("login")
           /\ ~LoggedOut(c)'
                 => /\ page'[c].location \in {"dashboard_doctor", "dashboard_user"}
                    /\ \/ RegisterInsert(c)
                       \/ \E email \in Emails, password \in Passwords :
                              Login(c, email, password)

\* C29 as stated: a dashboard page is rendered only for a session whose
\* user_type matches that dashboard and whose user_id is the id of an existing
\* record of that type; after /logout the session is empty and both dashboards
\* redirect to /login until a later successful login or registration.
C29_DashboardsAndEmptySession ==
    [][\A c \in Clients :
           /\ \A role \in Roles : DashboardOnlyForOwner(c, role)
           /\ Logout(c) => session'[c] = EmptyDict
           /\ LoggedOutUntilLogin(c)]_vars

\* C29 amended: the same, with the session after /logout holding no user_id,
\* user_name or user_type, and nothing but the message that logout flashes.
C29_DashboardsAndLogout ==
    [][\A c \in Clients :
           /\ \A role \in Roles : DashboardOnlyForOwner(c, role)
           /\ Logout(c) => LoggedOut(c)' /\ DOMAIN session'[c] = {"_flashes"}
           /\ LoggedOutUntilLogin(c)]_vars

\* C29 witness: a client that is logged in as a user, and whose id is also the
\* id of a doctor, has asked for a dashboard and was sent to /login.
C29_Witness ==
    \E c \in Clients :
        /\ Get(session[c], "user_type", "") = "user"
        /\ GetById(users, session[c]["user_id"]) # NoRow
        /\ GetById(doctors, session[c]["user_id"]) # NoRow
        /\ page[c] = Redirect("login")
====
